---- MODULE Spec2Model ----
(***************************************************************************)
(* rpack: the mediated filesystem (resolvers, access control, purity,      *)
(* recorder) and the executor's commit sequence.                           *)
(*                                                                         *)
(* A Go string is a tuple of atoms.  An atom is either one of the special  *)
(* characters "/", ":", "[" or a word that contains none of them ("rpack", *)
(* "map", "a", ".", ".."), or the word "[x]", a file name that reads as a  *)
(* character class.  Two dot atoms are never adjacent in an input, so a    *)
(* path element is "." or ".." exactly when it is the one-atom tuple.      *)
(***************************************************************************)
EXTENDS Integers, Sequences, FiniteSets, TLC

(* `x := v` followed by the statements F(x) *)
With(v, F(_)) == F(v)

Sep == "/"

(* ---------------------------------------------------------------------- *)
(* strings                                                                 *)
(* ---------------------------------------------------------------------- *)

HasPrefix(s, p) == Len(s) >= Len(p) /\ SubSeq(s, 1, Len(p)) = p

Drop(s, n) == SubSeq(s, n + 1, Len(s))

CutPrefix(s, p) == IF HasPrefix(s, p)
                   THEN [found |-> TRUE, after |-> Drop(s, Len(p))]
                   ELSE [found |-> FALSE, after |-> s]

Contains(s, a) == \E i \in 1..Len(s) : s[i] = a

IndexOf(s, a) == IF Contains(s, a)
                 THEN CHOOSE i \in 1..Len(s) : s[i] = a /\ \A j \in 1..(i - 1) : s[j] # a
                 ELSE 0

LastIndexOf(s, a) == IF Contains(s, a)
                     THEN CHOOSE i \in 1..Len(s) : s[i] = a /\ \A j \in (i + 1)..Len(s) : s[j] # a
                     ELSE 0

Cut(s, a) ==
    With(IndexOf(s, a), LAMBDA i :
        IF i = 0
        THEN [before |-> s, after |-> <<>>, found |-> FALSE]
        ELSE [before |-> SubSeq(s, 1, i - 1), after |-> Drop(s, i), found |-> TRUE])

(* strings.Split(s, "/"): the elements between separators, empty ones kept *)
RECURSIVE SplitSep(_)
SplitSep(s) ==
    With(Cut(s, Sep), LAMBDA c :
        IF c.found THEN <<c.before>> \o SplitSep(c.after) ELSE <<s>>)

RECURSIVE JoinSep(_)
JoinSep(elems) == IF elems = <<>> THEN <<>>
                  ELSE IF Len(elems) = 1 THEN elems[1]
                  ELSE elems[1] \o <<Sep>> \o JoinSep(Tail(elems))

(* ---------------------------------------------------------------------- *)
(* path/filepath                                                           *)
(* ---------------------------------------------------------------------- *)

Dot == <<".">>
DotDot == <<"..">>

IsAbs(path) == Len(path) > 0 /\ path[1] = Sep

(* The element loop of filepath.Clean: out is the stack of kept elements, *)
(* dd the number of leading ".." elements that cannot be backtracked.      *)
RECURSIVE CleanLoop(_, _, _, _)
CleanLoop(elems, out, dd, rooted) ==
    IF elems = <<>> THEN out
    ELSE IF Head(elems) = <<>> \/ Head(elems) = Dot THEN CleanLoop(Tail(elems), out, dd, rooted)
    ELSE IF Head(elems) # DotDot THEN CleanLoop(Tail(elems), Append(out, Head(elems)), dd, rooted)
    ELSE IF Len(out) > dd THEN CleanLoop(Tail(elems), SubSeq(out, 1, Len(out) - 1), dd, rooted)
    ELSE IF ~rooted THEN CleanLoop(Tail(elems), Append(out, Head(elems)), Len(out) + 1, rooted)
    ELSE CleanLoop(Tail(elems), out, dd, rooted)

Clean(path) ==
    IF path = <<>> THEN Dot
    ELSE With(JoinSep(CleanLoop(SplitSep(path), <<>>, 0, IsAbs(path))), LAMBDA out :
            IF IsAbs(path) THEN <<Sep>> \o out
            ELSE IF out = <<>> THEN Dot ELSE out)

IsLocal(path) ==
    IF IsAbs(path) \/ path = <<>> THEN FALSE
    ELSE With(SplitSep(path), LAMBDA elems :
         With(\E i \in 1..Len(elems) : elems[i] = Dot \/ elems[i] = DotDot, LAMBDA hasDots :
         With(IF hasDots THEN Clean(path) ELSE path, LAMBDA p :
            p # DotDot /\ ~HasPrefix(p, <<"..", Sep>>))))

Join(a, b) == IF a = <<>> /\ b = <<>> THEN <<>>
              ELSE Clean(IF a = <<>> THEN b ELSE a \o <<Sep>> \o b)

Dir(path) == Clean(SubSeq(path, 1, LastIndexOf(path, Sep)))

Base(path) == With(SplitSep(path), LAMBDA elems : elems[Len(elems)])

(* p is base itself or lies below it *)
Inside(p, base) == p = base \/ HasPrefix(p, base \o <<Sep>>)

(* ---------------------------------------------------------------------- *)
(* run layout and resolved inputs                                          *)
(* ---------------------------------------------------------------------- *)

ExecPath == <<Sep, "exec">>

RPackCacheDir == <<".rpack.d">>

(* exec_path/.rpack.d/sha256(source) *)
CachePath == ExecPath \o <<Sep>> \o RPackCacheDir \o <<Sep, "hs">>

SourcePath == CachePath \o <<Sep, "source">>

(* cache_path/sha256(config_path)/run and .../tmp *)
RunPath == CachePath \o <<Sep, "hc", Sep, "run">>

TempPath == CachePath \o <<Sep, "hc", Sep, "tmp">>

(* LoadRPackConfig: the config n.rpack.yaml lies in the exec path, and the   *)
(* lockfile beside it                                                      *)
LockFileName == <<"n.rpack.lock.yaml">>

LockFilePath == Join(ExecPath, LockFileName)

RPackInputTypeFile == "file"
RPackInputTypeDirectory == "dir"

(* one round of the loop of ResolveRPackInputs, for an input that exists *)
RPackResolvedInput(name, userPath, type) ==
    With(Clean(userPath), LAMBDA cleanUserPath :
        [Name |-> name, UserPath |-> cleanUserPath,
         ResolvedPath |-> Clean(Join(ExecPath, cleanUserPath)), Type |-> type])

(* the user's input mappings of a run: a file and a directory; in the     *)
(* second one the directory input is the exec path itself                  *)
InputsPlain == << RPackResolvedInput(<<"fi">>, <<"f">>, RPackInputTypeFile),
                  RPackResolvedInput(<<"di">>, <<"d">>, RPackInputTypeDirectory) >>

InputsRoot == << RPackResolvedInput(<<"fi">>, <<"f">>, RPackInputTypeFile),
                 RPackResolvedInput(<<"di">>, <<".">>, RPackInputTypeDirectory) >>

InputConfigs == {InputsPlain, InputsRoot}

(* the `inputs` of a config that resolve to ins *)
ConfigInputsOf(ins) ==
    [n \in {ins[i].Name : i \in 1..Len(ins)} |->
        ins[CHOOSE i \in 1..Len(ins) : ins[i].Name = n].UserPath]

(* ---------------------------------------------------------------------- *)
(* the declared inputs of the pack and ValidateRPackInputs                 *)
(* ---------------------------------------------------------------------- *)

RPackDefInputTypeFile == "file"
RPackDefInputTypeDirectory == "dir"

RPackDefInput(name, type) == [Name |-> name, Type |-> type]

(* the inputs the definition of the pack declares *)
DefInputs == << RPackDefInput(<<"fi">>, RPackDefInputTypeFile),
                RPackDefInput(<<"di">>, RPackDefInputTypeDirectory) >>

ErrResolvedExists == "Resolved input already exists"
ErrDefExists == "RPackDef input already exists"
ErrNoDefinition == "No definition found for user input"
ErrRequiresFile == "requires type file"
ErrRequiresDirectory == "requires type directory"

(* the visitedNames loops: some name comes a second time *)
NameVisitedTwice(ins) == \E i, j \in 1..Len(ins) : i < j /\ ins[i].Name = ins[j].Name

(* the first declared input of the name, 0 when there is none *)
MatchDefInput(defs, name) ==
    IF \E i \in 1..Len(defs) : defs[i].Name = name
    THEN CHOOSE i \in 1..Len(defs) :
            defs[i].Name = name /\ \A j \in 1..(i - 1) : defs[j].Name # name
    ELSE 0

(* a type check that takes every declaration as one of a file *)
InputTypeErrorFile(def, in) == IF in.Type # RPackInputTypeFile THEN ErrRequiresFile ELSE "ok"

(* the two type checks of one resolved input against its declaration *)
InputTypeError(def, in) ==
    IF def.Type = RPackDefInputTypeFile /\ in.Type # RPackInputTypeFile THEN ErrRequiresFile
    ELSE IF def.Type = RPackDefInputTypeDirectory /\ in.Type # RPackInputTypeDirectory
    THEN ErrRequiresDirectory
    ELSE "ok"

(* the loop over the resolved inputs *)
RECURSIVE ValidateLoop(_, _)
ValidateLoop(resolvedInputs, defs) ==
    IF resolvedInputs = <<>> THEN "ok"
    ELSE With(MatchDefInput(defs, Head(resolvedInputs).Name), LAMBDA m :
        IF m = 0 THEN ErrNoDefinition
        ELSE IF InputTypeError(defs[m], Head(resolvedInputs)) # "ok"
        THEN InputTypeError(defs[m], Head(resolvedInputs))
        ELSE ValidateLoop(Tail(resolvedInputs), defs))

ValidateRPackInputs(resolvedInputs, defs) ==
    IF NameVisitedTwice(resolvedInputs) THEN ErrResolvedExists
    ELSE IF NameVisitedTwice(defs) THEN ErrDefExists
    ELSE ValidateLoop(resolvedInputs, defs)

(* ---------------------------------------------------------------------- *)
(* resolvers and handles                                                   *)
(* ---------------------------------------------------------------------- *)

RPackResolver == "rpack"
TempResolver == "temp"
MapResolver == "map"
TargetResolver == "target"

MapFSResolverPrefix == <<"map", ":">>

NoHandle == [resolver |-> "", friendlyPath |-> <<>>, absPath |-> <<>>, indirectTargetPath |-> <<>>]

NewFileBackedFSHandle(absPath, friendlyPath, resolver, indirectTargetPath) ==
    [resolver |-> resolver, friendlyPath |-> friendlyPath, absPath |-> absPath,
     indirectTargetPath |-> indirectTargetPath]

ErrNone == "ok"
ErrNotRelative == "needs to be relative"
ErrNotLocal == "needs to be local"
ErrNoMappedInput == "could not find mapped input"
ErrMapNotDir == "map path is not a directory"
ErrUnresolved == "could not resolve filename"
ErrAccessDenied == "not allowed"
ErrNotExist == "path does not exist"
ErrNotDirectory == "path is not a directory"
ErrIO == "io error"

(* the errors a resolver (or the resolver list) reports about a name *)
PathErrors == {ErrNotRelative, ErrNotLocal, ErrNoMappedInput, ErrMapNotDir, ErrUnresolved}

(* what Resolve returns: the handle, whether the prefix matched, the error *)
Resolved(h, matched, err) == [h |-> h, matched |-> matched, err |-> err]

(* FileBackedFSResolver.Resolve without the IsLocal check *)
FileBackedFSResolverResolveAny(r, name) ==
    With(CutPrefix(name, r.prefix), LAMBDA cut :
        IF ~cut.found THEN Resolved(NoHandle, FALSE, ErrNone)
        ELSE With(Clean(cut.after), LAMBDA cleanPath :
            IF IsAbs(cleanPath) THEN Resolved(NoHandle, TRUE, ErrNotRelative)
            ELSE Resolved(NewFileBackedFSHandle(Join(r.baseDir, cleanPath), r.prefix \o cleanPath,
                                                r.name, cleanPath), TRUE, ErrNone)))

FileBackedFSResolverResolve(r, name) ==
    With(CutPrefix(name, r.prefix), LAMBDA cut :
        IF ~cut.found THEN Resolved(NoHandle, FALSE, ErrNone)
        ELSE With(Clean(cut.after), LAMBDA cleanPath :
            IF IsAbs(cleanPath) THEN Resolved(NoHandle, TRUE, ErrNotRelative)
            ELSE IF ~IsLocal(cleanPath) THEN Resolved(NoHandle, TRUE, ErrNotLocal)
            ELSE Resolved(NewFileBackedFSHandle(Join(r.baseDir, cleanPath), r.prefix \o cleanPath,
                                                r.name, cleanPath), TRUE, ErrNone)))

(* the first resolved input named base, or none *)
(* a lookup that takes the first input whatever its name *)
FindInputAny(resolvedInputs, base) == IF resolvedInputs = <<>> THEN 0 ELSE 1

FindInput(resolvedInputs, base) ==
    IF \E i \in 1..Len(resolvedInputs) : resolvedInputs[i].Name = base
    THEN CHOOSE i \in 1..Len(resolvedInputs) :
            /\ resolvedInputs[i].Name = base
            /\ \A j \in 1..(i - 1) : resolvedInputs[j].Name # base
    ELSE 0

(* a map resolver that gives every handle the user path of its input as   *)
(* indirect target path                                                    *)
MapFSResolverResolveFlat(r, name) ==
    With(CutPrefix(name, r.prefix), LAMBDA cut :
      IF ~cut.found THEN Resolved(NoHandle, FALSE, ErrNone)
      ELSE With(Clean(cut.after), LAMBDA cleanPath :
        IF IsAbs(cleanPath) THEN Resolved(NoHandle, TRUE, ErrNotRelative)
        ELSE IF ~IsLocal(cleanPath) THEN Resolved(NoHandle, TRUE, ErrNotLocal)
        ELSE With(Cut(cut.after, Sep), LAMBDA c :
             With(FindInput(r.resolvedInputs, c.before), LAMBDA idx :
          IF idx = 0 THEN Resolved(NoHandle, TRUE, ErrNoMappedInput)
          ELSE With(r.resolvedInputs[idx], LAMBDA resolvedInput :
            IF c.found /\ resolvedInput.Type # RPackInputTypeDirectory
            THEN Resolved(NoHandle, TRUE, ErrMapNotDir)
            ELSE Resolved(NewFileBackedFSHandle(
                              IF c.found THEN Join(resolvedInput.ResolvedPath, Clean(c.after))
                              ELSE resolvedInput.ResolvedPath,
                              r.prefix \o cleanPath, r.name, resolvedInput.UserPath),
                          TRUE, ErrNone))))))

MapFSResolverResolve(r, name) ==
    With(CutPrefix(name, r.prefix), LAMBDA cut :
      IF ~cut.found THEN Resolved(NoHandle, FALSE, ErrNone)
      ELSE With(Clean(cut.after), LAMBDA cleanPath :
        IF IsAbs(cleanPath) THEN Resolved(NoHandle, TRUE, ErrNotRelative)
        ELSE IF ~IsLocal(cleanPath) THEN Resolved(NoHandle, TRUE, ErrNotLocal)
        ELSE With(Cut(cut.after, Sep), LAMBDA c :
             With(FindInput(r.resolvedInputs, c.before), LAMBDA idx :
          IF idx = 0 THEN Resolved(NoHandle, TRUE, ErrNoMappedInput)
          ELSE With(r.resolvedInputs[idx], LAMBDA resolvedInput :
            IF ~c.found
            THEN Resolved(NewFileBackedFSHandle(resolvedInput.ResolvedPath, r.prefix \o cleanPath,
                                                r.name, resolvedInput.UserPath), TRUE, ErrNone)
            ELSE IF resolvedInput.Type # RPackInputTypeDirectory
                 THEN Resolved(NoHandle, TRUE, ErrMapNotDir)
            ELSE With(Clean(c.after), LAMBDA cleanNextPath :
              IF IsAbs(cleanNextPath) THEN Resolved(NoHandle, TRUE, ErrNotRelative)
              ELSE IF ~IsLocal(cleanNextPath) THEN Resolved(NoHandle, TRUE, ErrNotLocal)
              ELSE Resolved(NewFileBackedFSHandle(Join(resolvedInput.ResolvedPath, cleanNextPath),
                                                  r.prefix \o cleanPath, r.name,
                                                  Join(resolvedInput.UserPath, cleanNextPath)),
                            TRUE, ErrNone)))))))

(* a target resolver that writes into the exec path *)
TargetBaseDirExec == ExecPath

(* the directory the target resolver stages writes in *)
TargetBaseDir == RunPath

(* the resolver list of NewRPackFS, in order *)
Resolvers(inputs) ==
    << [kind |-> "file", name |-> RPackResolver, prefix |-> <<"rpack", ":">>, baseDir |-> SourcePath],
       [kind |-> "file", name |-> TempResolver, prefix |-> <<"temp", ":">>, baseDir |-> TempPath],
       [kind |-> "map", name |-> MapResolver, prefix |-> MapFSResolverPrefix, resolvedInputs |-> inputs],
       [kind |-> "file", name |-> TargetResolver, prefix |-> <<>>, baseDir |-> TargetBaseDir] >>

(* resolver.Resolve(name) *)
ResolverResolve(r, name) ==
    IF r.kind = "map" THEN MapFSResolverResolve(r, name) ELSE FileBackedFSResolverResolve(r, name)

(* BaseFS.resolve: the first resolver that matches decides *)
RECURSIVE resolveFrom(_, _, _)
(* the loop going on to the next resolver after an error *)
resolveFromLenient(rs, i, name) ==
    IF i > Len(rs) THEN [h |-> NoHandle, err |-> ErrUnresolved]
    ELSE With(ResolverResolve(rs[i], name), LAMBDA res :
            IF res.matched /\ res.err = ErrNone THEN [h |-> res.h, err |-> res.err]
            ELSE resolveFrom(rs, i + 1, name))

resolveFrom(rs, i, name) ==
    IF i > Len(rs) THEN [h |-> NoHandle, err |-> ErrUnresolved]
    ELSE With(ResolverResolve(rs[i], name), LAMBDA res :
            IF res.matched THEN [h |-> res.h, err |-> res.err]
            ELSE resolveFrom(rs, i + 1, name))

resolve(inputs, name) == resolveFrom(Resolvers(inputs), 1, name)

(* ---------------------------------------------------------------------- *)
(* the disk: a function from absolute clean paths to entries; every        *)
(* ancestor of a path in its domain is in the domain as a directory        *)
(* ---------------------------------------------------------------------- *)

Root == <<Sep>>

DirEntry == [kind |-> "dir", data |-> "-"]

FileEntry(b) == [kind |-> "file", data |-> b]

Put(d, p, e) == [q \in DOMAIN d \cup {p} |-> IF q = p THEN e ELSE d[q]]

Del(d, p) == [q \in DOMAIN d \ {p} |-> d[q]]

(* a directory without read permission *)
UnreadableDirEntry == [kind |-> "dir", data |-> "-", noread |-> TRUE]

Unreadable(d, p) == p \in DOMAIN d /\ "noread" \in DOMAIN d[p]

IsDirAt(d, p) == p \in DOMAIN d /\ d[p].kind = "dir"

IsFileAt(d, p) == p \in DOMAIN d /\ d[p].kind = "file"

(* os.MkdirAll: fails when the path or an ancestor is a regular file *)
RECURSIVE MkdirAll(_, _)
MkdirAll(d, p) ==
    IF p \in DOMAIN d THEN [disk |-> d, ok |-> d[p].kind = "dir"]
    ELSE With(MkdirAll(d, Dir(p)), LAMBDA par :
            IF ~par.ok THEN par ELSE [disk |-> Put(par.disk, p, DirEntry), ok |-> TRUE])

(* os.WriteFile *)
WriteFile(d, p, b) ==
    IF IsDirAt(d, p) \/ ~IsDirAt(d, Dir(p)) THEN [disk |-> d, ok |-> FALSE]
    ELSE [disk |-> Put(d, p, FileEntry(b)), ok |-> TRUE]

(* the byte order of the atoms that occur in file names *)
AtomOrder == << ".", "..", ".rpack.d", ":", "[", "[x]", "a", "b", "d", "di", "exec", "f", "fi",
                "foo", "hc", "hs", "map", "n.rpack.lock.yaml", "rpack", "run", "s", "source",
                "t", "temp", "tmp", "x", "y" >>

RECURSIVE NameLess(_, _)
NameLess(x, y) ==
    IF x = <<>> THEN y # <<>>
    ELSE IF y = <<>> THEN FALSE
    ELSE IF Head(x) = Head(y) THEN NameLess(Tail(x), Tail(y))
    ELSE IndexOf(AtomOrder, Head(x)) < IndexOf(AtomOrder, Head(y))

RECURSIVE SortNames(_)
SortNames(S) ==
    IF S = {} THEN <<>>
    ELSE With(CHOOSE x \in S : \A y \in S \ {x} : NameLess(x, y), LAMBDA m :
            <<m>> \o SortNames(S \ {m}))

(* os.ReadDir: the entry names of a directory, sorted by name *)
DirEntries(d, p) == SortNames({Base(q) : q \in {r \in DOMAIN d : r # p /\ Dir(r) = p}})

(* ---------------------------------------------------------------------- *)
(* FileBackedFSHandle                                                      *)
(* ---------------------------------------------------------------------- *)

HandleRead(d, h) ==
    IF IsFileAt(d, h.absPath) THEN [err |-> ErrNone, data |-> d[h.absPath].data]
    ELSE [err |-> ErrIO, data |-> "-"]

HandleWrite(d, h, b) ==
    With(MkdirAll(d, Dir(h.absPath)), LAMBDA mk :
        IF ~mk.ok THEN [disk |-> d, err |-> ErrIO]
        ELSE With(WriteFile(mk.disk, h.absPath, b), LAMBDA wr :
            [disk |-> wr.disk, err |-> IF wr.ok THEN ErrNone ELSE ErrIO]))

(* returns (fileInfo.IsDir(), true) for a path that exists, in this order *)
HandleStat(d, h) ==
    IF h.absPath \notin DOMAIN d THEN <<FALSE, FALSE>>
    ELSE <<d[h.absPath].kind = "dir", TRUE>>

(* a child handle whose friendly path is the name of the entry alone *)
ChildHandleBare(h, name) ==
    NewFileBackedFSHandle(Join(h.absPath, name), name, h.resolver,
                          Join(h.indirectTargetPath, name))

(* the handle of an entry of the directory of h *)
ChildHandle(h, name) ==
    NewFileBackedFSHandle(Join(h.absPath, name), Join(h.friendlyPath, name), h.resolver,
                          Join(h.indirectTargetPath, name))

(* the handles of a listing that are directories (or are not), in order *)
RECURSIVE EntriesOfKind(_, _, _)
EntriesOfKind(d, hs, dirs) ==
    IF hs = <<>> THEN <<>>
    ELSE (IF IsDirAt(d, Head(hs).absPath) = dirs THEN <<Head(hs)>> ELSE <<>>)
         \o EntriesOfKind(d, Tail(hs), dirs)

(* os.ReadDir fails on what is no directory and on a directory without    *)
(* read permission                                                         *)
HandleReadDir(d, h) ==
    IF ~IsDirAt(d, h.absPath) \/ Unreadable(d, h.absPath)
    THEN [err |-> ErrIO, files |-> <<>>, dirs |-> <<>>]
    ELSE With(DirEntries(d, h.absPath), LAMBDA entries :
         With([i \in 1..Len(entries) |-> ChildHandle(h, entries[i])], LAMBDA children :
            [err |-> ErrNone, files |-> EntriesOfKind(d, children, FALSE),
             dirs |-> EntriesOfKind(d, children, TRUE)]))

(* ---------------------------------------------------------------------- *)
(* hooks: access control, purity, recorder                                 *)
(* ---------------------------------------------------------------------- *)

FSAccessTypeRead == "read"
FSAccessTypeWrite == "write"
FSAccessTypeStat == "stat"
FSAccessTypeReadDir == "readdir"

AccessControlRead(h) == IF h.resolver = TargetResolver THEN ErrAccessDenied ELSE ErrNone

(* the write rule without the map case *)
AccessControlWriteOpen(h) == IF h.resolver = RPackResolver THEN ErrAccessDenied ELSE ErrNone

AccessControlWrite(h) ==
    IF h.resolver = RPackResolver THEN ErrAccessDenied
    ELSE IF h.resolver = MapResolver THEN ErrAccessDenied
    ELSE ErrNone

AccessControlReadDir(h) == IF h.resolver = TargetResolver THEN ErrAccessDenied ELSE ErrNone

(* the stat rule left out *)
AccessControlStatOpen(h) == ErrNone

AccessControlStat(h) == IF h.resolver = TargetResolver THEN ErrAccessDenied ELSE ErrNone

NewEnsurePure == [ReadHandles |-> <<>>, ReadDirHandles |-> <<>>, StatHandles |-> <<>>,
                  WriteHandles |-> <<>>]

(* a purity hook that keeps no reads *)
EnsurePureReadOff(f, h) == f

EnsurePureRead(f, h) ==
    IF h.resolver = MapResolver THEN [f EXCEPT !.ReadHandles = Append(@, h)] ELSE f

EnsurePureWrite(f, h) ==
    IF h.resolver = TargetResolver THEN [f EXCEPT !.WriteHandles = Append(@, h)] ELSE f

EnsurePureReadDir(f, h) ==
    IF h.resolver = MapResolver THEN [f EXCEPT !.ReadDirHandles = Append(@, h)] ELSE f

EnsurePureStat(f, h) ==
    IF h.resolver = MapResolver THEN [f EXCEPT !.StatHandles = Append(@, h)] ELSE f

(* FSRecorder.filterRecord with the nil filter of NewRPackFS *)
(* a recorder that puts the new record in front *)
filterRecordFront(records, typ, h) == <<[Typ |-> typ, Handle |-> h]>> \o records

filterRecord(records, typ, h) == Append(records, [Typ |-> typ, Handle |-> h])

(* the hook method of the access type *)
AccessControlHook(typ, h) ==
    CASE typ = FSAccessTypeRead -> AccessControlRead(h)
      [] typ = FSAccessTypeWrite -> AccessControlWrite(h)
      [] typ = FSAccessTypeReadDir -> AccessControlReadDir(h)
      [] typ = FSAccessTypeStat -> AccessControlStat(h)

EnsurePureHook(typ, f, h) ==
    CASE typ = FSAccessTypeRead -> EnsurePureRead(f, h)
      [] typ = FSAccessTypeWrite -> EnsurePureWrite(f, h)
      [] typ = FSAccessTypeReadDir -> EnsurePureReadDir(f, h)
      [] typ = FSAccessTypeStat -> EnsurePureStat(f, h)

(* the loop over the hooks without its `return err`: every hook is called, *)
(* the first error is returned after the loop                              *)
RunHooksAll(typ, st, h) ==
    [st |-> [st EXCEPT !.pure = EnsurePureHook(typ, @, h),
                       !.records = filterRecord(@, typ, h)],
     err |-> AccessControlHook(typ, h)]

(* `for _, hook := range fs.Hooks`: access control, purity, recorder; the *)
(* first error ends the loop.  st = [pure, records, disk].                 *)
RunHooks(typ, st, h) ==
    With(AccessControlHook(typ, h), LAMBDA e :
        IF e # ErrNone THEN [st |-> st, err |-> e]
        ELSE [st |-> [st EXCEPT !.pure = EnsurePureHook(typ, @, h),
                                !.records = filterRecord(@, typ, h)],
              err |-> ErrNone])

(* ---------------------------------------------------------------------- *)
(* BaseFS: every operation returns the new state, the error, the value and *)
(* the list of handle calls it made                                        *)
(* ---------------------------------------------------------------------- *)

NoVal == "-"

Ret(st, err, val, calls) == [st |-> st, err |-> err, val |-> val, calls |-> calls]

Call(op, h) == [op |-> op, absPath |-> h.absPath]

BaseFSWrite(inputs, st, name, b) ==
    With(resolve(inputs, name), LAMBDA r :
      IF r.err # ErrNone THEN Ret(st, r.err, NoVal, <<>>)
      ELSE With(RunHooks(FSAccessTypeWrite, st, r.h), LAMBDA hk :
        IF hk.err # ErrNone THEN Ret(hk.st, hk.err, NoVal, <<>>)
        ELSE With(HandleWrite(hk.st.disk, r.h, b), LAMBDA w :
          Ret([hk.st EXCEPT !.disk = w.disk], w.err, NoVal, <<Call("write", r.h)>>))))

BaseFSRead(inputs, st, name) ==
    With(resolve(inputs, name), LAMBDA r :
      IF r.err # ErrNone THEN Ret(st, r.err, NoVal, <<>>)
      ELSE With(RunHooks(FSAccessTypeRead, st, r.h), LAMBDA hk :
        IF hk.err # ErrNone THEN Ret(hk.st, hk.err, NoVal, <<>>)
        ELSE With(HandleRead(hk.st.disk, r.h), LAMBDA rd :
          Ret(hk.st, rd.err, rd.data, <<Call("read", r.h)>>))))

(* t is what handle.Stat() returns, taken as `exists, dir` *)
BaseFSStat(inputs, st, name) ==
    With(resolve(inputs, name), LAMBDA r :
      IF r.err # ErrNone THEN Ret(st, r.err, NoVal, <<>>)
      ELSE With(RunHooks(FSAccessTypeStat, st, r.h), LAMBDA hk :
        IF hk.err # ErrNone THEN Ret(hk.st, hk.err, NoVal, <<>>)
        ELSE With(HandleStat(hk.st.disk, r.h), LAMBDA t :
          Ret(hk.st, ErrNone, [exists |-> t[1], dir |-> t[2]], <<Call("stat", r.h)>>))))

(* the stat hooks over the handles a directory listing returned *)
RECURSIVE StatHooksOver(_, _)
StatHooksOver(st, hs) ==
    IF hs = <<>> THEN [st |-> st, err |-> ErrNone]
    ELSE With(RunHooks(FSAccessTypeStat, st, Head(hs)), LAMBDA hk :
            IF hk.err # ErrNone THEN hk ELSE StatHooksOver(hk.st, Tail(hs)))

FriendlyPaths(hs) == [i \in 1..Len(hs) |-> hs[i].friendlyPath]

BaseFSReadDir(inputs, st, name) ==
    With(resolve(inputs, name), LAMBDA r :
      IF r.err # ErrNone THEN Ret(st, r.err, NoVal, <<>>)
      ELSE With(RunHooks(FSAccessTypeStat, st, r.h), LAMBDA hk1 :
        IF hk1.err # ErrNone THEN Ret(hk1.st, hk1.err, NoVal, <<>>)
        ELSE With(HandleStat(hk1.st.disk, r.h), LAMBDA t :
          IF ~t[1] THEN Ret(hk1.st, ErrNotExist, NoVal, <<Call("stat", r.h)>>)
          ELSE IF ~t[2] THEN Ret(hk1.st, ErrNotDirectory, NoVal, <<Call("stat", r.h)>>)
          ELSE With(RunHooks(FSAccessTypeReadDir, hk1.st, r.h), LAMBDA hk2 :
            IF hk2.err # ErrNone THEN Ret(hk2.st, hk2.err, NoVal, <<Call("stat", r.h)>>)
            ELSE With(<<Call("stat", r.h), Call("readdir", r.h)>>, LAMBDA calls :
                 With(HandleReadDir(hk2.st.disk, r.h), LAMBDA rd :
              IF rd.err # ErrNone THEN Ret(hk2.st, rd.err, NoVal, calls)
              ELSE With(StatHooksOver(hk2.st, rd.files), LAMBDA hk3 :
                IF hk3.err # ErrNone THEN Ret(hk3.st, hk3.err, NoVal, calls)
                ELSE With(StatHooksOver(hk3.st, rd.dirs), LAMBDA hk4 :
                  IF hk4.err # ErrNone THEN Ret(hk4.st, hk4.err, NoVal, calls)
                  ELSE Ret(hk4.st, ErrNone,
                           [files |-> FriendlyPaths(rd.files), dirs |-> FriendlyPaths(rd.dirs)],
                           calls)))))))))

(* a loop that goes down into a directory before it lists the next one of *)
(* the same level                                                          *)
RECURSIVE ReadDirAllLoopDepthFirst(_, _, _, _, _, _)
ReadDirAllLoopDepthFirst(inputs, st, queue, files, dirs, calls) ==
    IF queue = <<>> THEN Ret(st, ErrNone, [files |-> files, dirs |-> dirs], calls)
    ELSE With(BaseFSReadDir(inputs, st, Head(queue)), LAMBDA res :
            IF res.err # ErrNone THEN Ret(res.st, res.err, NoVal, calls \o res.calls)
            ELSE ReadDirAllLoopDepthFirst(inputs, res.st, res.val.dirs \o Tail(queue),
                                          files \o res.val.files, dirs \o res.val.dirs,
                                          calls \o res.calls))

(* the queue loop of ReadDirAll *)
RECURSIVE ReadDirAllLoop(_, _, _, _, _, _)
ReadDirAllLoop(inputs, st, queue, files, dirs, calls) ==
    IF queue = <<>> THEN Ret(st, ErrNone, [files |-> files, dirs |-> dirs], calls)
    ELSE With(BaseFSReadDir(inputs, st, Head(queue)), LAMBDA res :
            IF res.err # ErrNone THEN Ret(res.st, res.err, NoVal, calls \o res.calls)
            ELSE ReadDirAllLoop(inputs, res.st, Tail(queue) \o res.val.dirs,
                                files \o res.val.files, dirs \o res.val.dirs,
                                calls \o res.calls))

BaseFSReadDirAll(inputs, st, name) == ReadDirAllLoop(inputs, st, <<name>>, <<>>, <<>>, <<>>)

(* ---------------------------------------------------------------------- *)
(* EnsurePure.CheckConflicts                                               *)
(* ---------------------------------------------------------------------- *)

Star == "*"

(* one atom of a pattern against one atom of a name: the atom "[x]" is the *)
(* character class that matches x, every other atom stands for itself      *)
MatchAtom(p, n) == IF p = "[x]" THEN n = "x" ELSE p = n

MatchPrefix(name, lit) ==
    Len(name) >= Len(lit) /\ \A i \in 1..Len(lit) : MatchAtom(lit[i], name[i])

(* filepath.Match for the patterns CheckConflicts builds: the atoms of a   *)
(* clean path followed by one "*".  The atom "[" opens a character class   *)
(* that is never closed: Match reports ErrBadPattern.                      *)
FilepathMatch(pattern, name) ==
    IF Contains(pattern, "[") THEN [matched |-> FALSE, err |-> TRUE]
    ELSE IF pattern # <<>> /\ pattern[Len(pattern)] = Star
         THEN With(SubSeq(pattern, 1, Len(pattern) - 1), LAMBDA lit :
                [matched |-> MatchPrefix(name, lit) /\ ~Contains(Drop(name, Len(lit)), Sep),
                 err |-> FALSE])
         ELSE [matched |-> Len(pattern) = Len(name) /\ MatchPrefix(name, pattern), err |-> FALSE]

ErrPureRead == "read and write of same file"
ErrPureStat == "stat and write of same file"
ErrPureReadDir == "readdir and write in same directory"
ErrPurePattern == "readdir pure-check error"

PurityErrors == {ErrPureRead, ErrPureStat, ErrPureReadDir, ErrPurePattern}

(* the loop over hs and, inside it, over WriteHandles: a path of both *)
SamePath(hs, W) ==
    \E i \in 1..Len(hs) : \E j \in 1..Len(W) :
        hs[i].indirectTargetPath = W[j].indirectTargetPath

(* the loop over ReadDirHandles and, inside it, over WriteHandles *)
RECURSIVE ReadDirConflicts(_, _, _, _)
ReadDirConflicts(RD, W, i, j) ==
    IF i > Len(RD) THEN ErrNone
    ELSE IF j > Len(W) THEN ReadDirConflicts(RD, W, i + 1, 1)
    ELSE With(FilepathMatch(Join(RD[i].indirectTargetPath, <<Star>>), W[j].indirectTargetPath),
              LAMBDA m :
                IF m.err THEN ErrPurePattern
                ELSE IF m.matched THEN ErrPureReadDir
                ELSE ReadDirConflicts(RD, W, i, j + 1))

CheckConflicts(f) ==
    IF SamePath(f.ReadHandles, f.WriteHandles) THEN ErrPureRead
    ELSE IF SamePath(f.StatHandles, f.WriteHandles) THEN ErrPureStat
    ELSE ReadDirConflicts(f.ReadDirHandles, f.WriteHandles, 1, 1)

(* RPackFS.Check without a PureCheck *)
RPackFSCheckOff(f) == ErrNone

(* RPackFS.Check with PureCheck set (enforcePure = true) *)
RPackFSCheck(f) == CheckConflicts(f)

(* a filter that takes the writes of every resolver *)
TargetTransferHandleFilterFnAny(rec) == rec.Typ = FSAccessTypeWrite

TargetTransferHandleFilterFn(rec) ==
    rec.Typ = FSAccessTypeWrite /\ rec.Handle.resolver = TargetResolver

(* RPackFS.TargetWriteHandles *)
TargetWriteHandles(records) ==
    With(SelectSeq(records, TargetTransferHandleFilterFn), LAMBDA sel :
        [i \in 1..Len(sel) |-> sel[i].Handle])

(* ---------------------------------------------------------------------- *)
(* the Lua library: read_lines and write_lines                             *)
(* ---------------------------------------------------------------------- *)

LF == <<"\n">>
CRLF == <<"\r", "\n">>

HasSuffix(s, suf) == Len(s) >= Len(suf) /\ SubSeq(s, Len(s) - Len(suf) + 1, Len(s)) = suf

(* strings.Index(s, sub) + 1, and 0 when sub is not in s *)
StringsIndex(s, sub) ==
    With({ i \in 1..(Len(s) - Len(sub) + 1) : SubSeq(s, i, i + Len(sub) - 1) = sub }, LAMBDA at :
        IF at = {} THEN 0 ELSE CHOOSE i \in at : \A j \in at : i <= j)

StringsContains(s, sub) == StringsIndex(s, sub) # 0

(* strings.Split(s, sep) for a sep that is not empty *)
RECURSIVE StringsSplit(_, _)
StringsSplit(s, sep) ==
    With(StringsIndex(s, sep), LAMBDA i :
        IF i = 0 THEN <<s>>
        ELSE <<SubSeq(s, 1, i - 1)>> \o StringsSplit(Drop(s, i + Len(sep) - 1), sep))

RECURSIVE StringsJoin(_, _)
StringsJoin(elems, sep) ==
    IF elems = <<>> THEN <<>>
    ELSE IF Len(elems) = 1 THEN elems[1]
    ELSE elems[1] \o sep \o StringsJoin(Tail(elems), sep)

(* `sep := "\n"; if strings.Contains(content, "\r\n") { sep = "\r\n" }` *)
SeparatorOf(content) == IF StringsContains(content, CRLF) THEN CRLF ELSE LF

(* luaReadLines, on the bytes fs.Read returned *)
luaReadLines(content) ==
    With(SeparatorOf(content), LAMBDA sep :
    With(HasSuffix(content, sep), LAMBDA finalNewline :
    With(StringsSplit(content, sep), LAMBDA linesArr :
        [lines |-> IF finalNewline /\ Len(linesArr) > 0 /\ linesArr[Len(linesArr)] = <<>>
                   THEN SubSeq(linesArr, 1, Len(linesArr) - 1)
                   ELSE linesArr,
         separator |-> sep,
         finalNewline |-> finalNewline])))

(* luaWriteLines: the bytes it hands to fs.Write *)
luaWriteLines(lines, sep, finalNewline) ==
    StringsJoin(lines, sep) \o (IF finalNewline THEN sep ELSE <<>>)

(* ---------------------------------------------------------------------- *)
(* checksums and the lockfile                                              *)
(* ---------------------------------------------------------------------- *)

(* SHA-256 of a byte string: the digest names the bytes it was taken of *)
Sha256(b) == <<"sha256", b>>

(* util.Sha256File: fails unless a regular file can be read *)
Sha256File(d, p) ==
    IF IsFileAt(d, p) THEN [err |-> FALSE, sha |-> Sha256(d[p].data)]
    ELSE [err |-> TRUE, sha |-> <<>>]

(* util.FileExists: only "not exist" is (false, nil); below a regular file *)
(* os.Stat fails with ENOTDIR; a directory counts as existing and is an    *)
(* error too                                                               *)
FileExists(d, p) ==
    IF p \notin DOMAIN d
    THEN With(\E q \in DOMAIN d : d[q].kind = "file" /\ Inside(p, q), LAMBDA belowFile :
            [exists |-> belowFile, err |-> belowFile])
    ELSE IF d[p].kind = "dir" THEN [exists |-> TRUE, err |-> TRUE]
    ELSE [exists |-> TRUE, err |-> FALSE]

(* a check of existence that takes a directory for a file *)
CheckFileExistsOrDir(d, p) == p \in DOMAIN d

(* util.CheckFileExists: nil only for a regular file *)
CheckFileExists(d, p) == With(FileExists(d, p), LAMBDA fe : ~fe.err /\ fe.exists)

(* util.CheckFileOrDirExists: os.Stat must succeed *)
CheckFileOrDirExists(d, name) ==
    IF name \in DOMAIN d THEN [dir |-> d[name].kind = "dir", err |-> FALSE]
    ELSE [dir |-> FALSE, err |-> TRUE]

ErrUserPathNotRelative == "User path is not relative"
ErrUserPathNotLocal == "User path is not local"
ErrUserPathNotExist == "User path does not exist"

(* a resolution that joins the user path as it was given *)
ResolvedPathOfRaw(execPath, userPath) == execPath \o <<Sep>> \o userPath

(* `absPath := filepath.Join(execPath, cleanUserPath)`, cleaned once more *)
ResolvedPathOf(execPath, userPath) == Clean(Join(execPath, Clean(userPath)))

(* the loop of ResolveRPackInputs over the names in the order in which the *)
(* map is ranged over                                                      *)
RECURSIVE ResolveLoop(_, _, _, _, _)
ResolveLoop(order, config, execPath, d, resolvedInputs) ==
    IF order = <<>> THEN [err |-> ErrNone, inputs |-> resolvedInputs]
    ELSE With(Head(order), LAMBDA name :
         With(Clean(config[name]), LAMBDA cleanUserPath :
            IF IsAbs(cleanUserPath) THEN [err |-> ErrUserPathNotRelative, inputs |-> <<>>]
            ELSE IF ~IsLocal(cleanUserPath) THEN [err |-> ErrUserPathNotLocal, inputs |-> <<>>]
            ELSE With(ResolvedPathOf(execPath, config[name]), LAMBDA absPath :
                 With(CheckFileOrDirExists(d, absPath), LAMBDA st :
                    IF st.err THEN [err |-> ErrUserPathNotExist, inputs |-> <<>>]
                    ELSE ResolveLoop(Tail(order), config, execPath, d,
                            Append(resolvedInputs,
                                   [Name |-> name, UserPath |-> cleanUserPath,
                                    ResolvedPath |-> absPath,
                                    Type |-> IF st.dir THEN RPackInputTypeDirectory
                                             ELSE RPackInputTypeFile]))))))

ResolveRPackInputs(order, config, execPath, d) == ResolveLoop(order, config, execPath, d, <<>>)

LockFileFile(path, sha) == [Path |-> path, Sha |-> sha]

(* `res := &RPackLockFileIntegrity{}` *)
NoIntegrity == [Modified |-> <<>>, Removed |-> <<>>, err |-> FALSE]

RECURSIVE CheckIntegrityLoop(_, _, _, _)
CheckIntegrityLoop(files, cleanBase, d, res) ==
    IF files = <<>> THEN res
    ELSE With(Head(files), LAMBDA file :
         With(Join(cleanBase, file.Path), LAMBDA filePath :
            IF ~CheckFileExists(d, filePath)
            THEN CheckIntegrityLoop(Tail(files), cleanBase, d,
                                    [res EXCEPT !.Removed = Append(@, file.Path)])
            ELSE With(Sha256File(d, filePath), LAMBDA chsum :
                IF chsum.err THEN [res EXCEPT !.err = TRUE]
                ELSE IF file.Sha # chsum.sha
                THEN CheckIntegrityLoop(Tail(files), cleanBase, d,
                                        [res EXCEPT !.Modified = Append(@, file.Path)])
                ELSE CheckIntegrityLoop(Tail(files), cleanBase, d, res))))

(* RPackLockFile.CheckIntegrity *)
CheckIntegrity(files, path, d) ==
    CheckIntegrityLoop(files, Clean(path), d, NoIntegrity)

PathsOf(files) == {files[i].Path : i \in 1..Len(files)}

(* the paths of the files of xs that are not in paths, in order *)
RECURSIVE PathsNotIn(_, _)
PathsNotIn(xs, paths) ==
    IF xs = <<>> THEN <<>>
    ELSE (IF Head(xs).Path \in paths THEN <<>> ELSE <<Head(xs).Path>>) \o PathsNotIn(Tail(xs), paths)

(* the two lists the other way round *)
ChangesSwapped(new, old) ==
    [Added |-> PathsNotIn(old, PathsOf(new)), Removed |-> PathsNotIn(new, PathsOf(old))]

(* RPackLockFile.Changes: new.Changes(old) *)
Changes(new, old) ==
    [Added |-> PathsNotIn(new, PathsOf(old)), Removed |-> PathsNotIn(old, PathsOf(new))]

(* RPackLockFile.WriteFile: yaml.Marshal and os.WriteFile.  The bytes are   *)
(* data; files is what yaml.Unmarshal makes of them again                  *)
LockFileEntry(files) == [kind |-> "file", data |-> ToString(files), files |-> files]

RPackLockFileWriteFile(d, name, files) ==
    With(WriteFile(d, name, ToString(files)), LAMBDA wr :
        IF ~wr.ok THEN wr ELSE [disk |-> Put(d, name, LockFileEntry(files)), ok |-> TRUE])

(* LoadRPackConfig, the lockfile part: no file is the empty lockfile; a    *)
(* directory or bytes that are not a lockfile are an error                 *)
loadRPackLockFile(d, name) ==
    IF name \notin DOMAIN d THEN [present |-> FALSE, files |-> <<>>, err |-> FALSE]
    ELSE IF "files" \in DOMAIN d[name] THEN [present |-> TRUE, files |-> d[name].files, err |-> FALSE]
    ELSE [present |-> TRUE, files |-> <<>>, err |-> TRUE]

(* ---------------------------------------------------------------------- *)
(* bounds and the inputs of the model                                      *)
(* ---------------------------------------------------------------------- *)

(* FS calls of one script in a run of the executor *)
MaxOps == 2

(* FS calls on one RPackFS *)
MaxFSOps == 2

(* atoms after the prefix of a probed name *)
MaxTailLen == 4

(* what one script asks for in each of two runs: FS calls and inputs()     *)
MaxRunOps == 2

(* resolved and declared inputs of a validation *)
MaxInputs == 2

(* entries of a lockfile *)
MaxLockFiles == 2

(* atoms of the user path of an input *)
MaxPathLen == 3

(* characters of a line and lines of a file *)
MaxLineLen == 2

MaxLines == 2

P(x) == <<x>>

N2(x, y) == <<x, Sep, y>>

Pre(p, tail) == <<p, ":">> \o tail

CallOf(op, name, data) == [op |-> op, name |-> name, data |-> data]

(* what a script of a run calls: target writes (one of them on the name of  *)
(* the lockfile), one observed input, one scratch write, one directory     *)
(* listing                                                                 *)
ScriptCalls ==
    { CallOf("write", P("a"), "c1"), CallOf("write", P("a"), "c2"),
      CallOf("write", P("b"), "c1"), CallOf("write", P("f"), "c1"),
      CallOf("write", N2("d", "y"), "c1"),
      CallOf("write", LockFileName, "c1"),
      CallOf("write", Pre("temp", P("b")), "c2"),
      CallOf("read", Pre("map", P("fi")), NoVal),
      CallOf("readdir", Pre("map", P("di")), NoVal),
      CallOf("read", P("a"), NoVal) }

(* what a script calls that reads the pack and the inputs and writes what  *)
(* it read: the pack file s copied to the target s, the input f, the       *)
(* listings of the input directory d and of its subdirectory [x]           *)
PureCalls ==
    { CallOf("read", Pre("rpack", P("s")), NoVal), CallOf("write", P("s"), "c0"),
      CallOf("read", Pre("map", P("fi")), NoVal), CallOf("write", P("f"), "c1"),
      CallOf("write", P("a"), "c1"),
      CallOf("readdir", Pre("map", P("di")), NoVal), CallOf("write", N2("d", "y"), "c1"),
      CallOf("readdir", Pre("map", N2("di", "[x]")), NoVal),
      CallOf("write", <<"d", Sep, "[x]", Sep, "y">>, "c1") }

(* what a script calls that is run twice *)
RunCalls == { CallOf("write", P("a"), "c1"), CallOf("write", P("a"), "c2") }

(* what is called on one RPackFS *)
FSCalls ==
    { CallOf("read", n, NoVal) :
        n \in { Pre("map", P("fi")), Pre("map", N2("di", "x")), Pre("rpack", P("s")),
                Pre("temp", P("t")), P("a"), Pre("foo", P("a")), N2("..", "a") } }
    \cup
    { CallOf("stat", n, NoVal) :
        n \in { Pre("map", P("fi")), Pre("map", N2("di", "x")), Pre("map", P("di")),
                Pre("temp", P("t")), P("a") } }
    \cup
    { CallOf("readdir", n, NoVal) :
        n \in { Pre("map", P("di")), Pre("map", N2("di", "[")), Pre("rpack", P(".")),
                Pre("map", P("fi")), P("a") } }
    \cup
    { CallOf("readdirall", n, NoVal) :
        n \in { Pre("map", P("di")), Pre("rpack", P(".")), P(".") } }
    \cup
    { CallOf("write", n, "c1") :
        n \in { P("f"), P("a"), P("x"), N2("d", "x"), N2("d", "y"), <<"d", Sep, "[", Sep, "y">>,
                Pre("temp", P("t")), Pre("rpack", P("s")), Pre("map", P("fi")),
                Pre("foo", P("a")), P("."), <<Sep, "a">> } }

(* the probed names: a prefix and every tail of at most MaxTailLen atoms   *)
(* in which no two dot atoms and no two name atoms are adjacent            *)
TailAtoms == {Sep, ".", "..", "di", "fi", "x"}

NamePrefixes == { <<>>, <<"rpack", ":">>, <<"temp", ":">>, <<"map", ":">>, <<"foo", ":">> }

DotAtoms == {".", ".."}

NameAtoms == {"di", "fi", "x"}

WellFormed(t) ==
    \A i \in 1..(Len(t) - 1) :
        /\ ~(t[i] \in DotAtoms /\ t[i + 1] \in DotAtoms)
        /\ ~(t[i] \in NameAtoms /\ t[i + 1] \in NameAtoms)

Tails == UNION { {t \in [1..n -> TailAtoms] : WellFormed(t)} : n \in 0..MaxTailLen }

ProbeNames == { p \o t : p \in NamePrefixes, t \in Tails }

FSOps == {"read", "write", "stat", "readdir", "readdirall"}

ProbeCalls == { CallOf(op, n, IF op = "write" THEN "c1" ELSE NoVal) : op \in FSOps, n \in ProbeNames }

(* ---------------------------------------------------------------------- *)
(* state                                                                   *)
(* ---------------------------------------------------------------------- *)

VARIABLES
    force,        \* Executor.Force
    dryRun,       \* Executor.DryRun
    inputs,       \* RPackInstance.ResolvedInputs
    defInputs,    \* RPackDef.Inputs
    configInputs, \* RPackConfig.Inputs: name -> user path
    disk,         \* the file system
    pure,         \* RPackFS.PureCheck
    records,      \* RPackFS.recorder.records
    pc,           \* position in ExecRPack
    result,       \* what ExecRPack returned
    errPaths,     \* the paths the returned error names
    ret,          \* the last FS call and what it returned
    nops,         \* FS calls made so far
    oldLock,      \* ci.LockFile.Files
    oldLockIntegrity, \* what oldLock.CheckIntegrity returned
    filesToMove,
    checksums,
    newLockfile,
    changes,
    idx,          \* loop index of the move and remove loops
    moved,        \* the targets of the os.Rename calls of the move loop
    trace,        \* what the script asked for (FS calls, inputs()) and what it got
    first,        \* the run before this one, when the pack is run a second time
    disk0         \* the disk when the run started

vars == << force, dryRun, inputs, defInputs, configInputs, disk, pure, records, pc, result, errPaths, ret,
           nops, oldLock, oldLockIntegrity, filesToMove, checksums, newLockfile, changes, idx, moved,
           trace, first, disk0 >>

execVars == << filesToMove, checksums, newLockfile, changes, idx, oldLock, oldLockIntegrity,
              moved >>

cfgVars == << force, dryRun, inputs, defInputs, configInputs, disk0, first >>

(* the lockfile file now and when the run started *)
lockDisk == loadRPackLockFile(disk, LockFilePath)

lock0 == loadRPackLockFile(disk0, LockFilePath)

MkDisk(pairs) == [p \in {x[1] : x \in pairs} |-> (CHOOSE x \in pairs : x[1] = p)[2]]

(* the exec path before a run: the mapped inputs f and d, the cache with   *)
(* the pack source and what an earlier run left in the staging directories *)
BaseDisk ==
    MkDisk({ <<Root, DirEntry>>, <<ExecPath, DirEntry>>,
             <<Join(ExecPath, P("f")), FileEntry("c0")>>,
             <<Join(ExecPath, P("d")), DirEntry>>,
             <<Join(ExecPath, N2("d", "x")), FileEntry("c0")>>,
             <<Join(ExecPath, N2("d", "[")), DirEntry>>,
             <<Join(ExecPath, N2("d", "[x]")), DirEntry>>,
             <<Join(ExecPath, RPackCacheDir), DirEntry>>,
             <<CachePath, DirEntry>>,
             <<SourcePath, DirEntry>>,
             <<Join(SourcePath, P("s")), FileEntry("c0")>>,
             <<Dir(RunPath), DirEntry>>,
             <<RunPath, DirEntry>>,
             <<Join(RunPath, P("b")), FileEntry("c2")>>,
             <<TempPath, DirEntry>> })

(* a target path before the run: not there, there but not in the lockfile, *)
(* locked and untouched, locked and edited, locked and deleted, locked and *)
(* replaced by a directory                                                 *)
TargetStatesA == {"free", "unmanaged", "clean", "modified", "removed", "dir"}
TargetStatesB == {"free", "clean", "modified"}

Locked(ts) == ts \in {"clean", "modified", "removed", "dir"}

WithTarget(d, name, ts) ==
    IF ts = "clean" THEN Put(d, Join(ExecPath, name), FileEntry("c1"))
    ELSE IF ts \in {"modified", "unmanaged"} THEN Put(d, Join(ExecPath, name), FileEntry("c2"))
    ELSE IF ts = "dir" THEN Put(d, Join(ExecPath, name), DirEntry)
    ELSE d

InitDisk(sa, sb) == WithTarget(WithTarget(BaseDisk, P("a"), sa), P("b"), sb)

InitLockFiles(sa, sb) ==
    (IF Locked(sa) THEN <<LockFileFile(P("a"), Sha256("c1"))>> ELSE <<>>)
    \o (IF Locked(sb) THEN <<LockFileFile(P("b"), Sha256("c1"))>> ELSE <<>>)

(* the lockfile an earlier run left: none when that run wrote nothing (or   *)
(* there was no run), "listed" when its script wrote the target            *)
(* n.rpack.lock.yaml and nothing else                                      *)
WithLockFile(d, files) ==
    IF files = <<>> THEN d ELSE Put(d, LockFilePath, LockFileEntry(files))

InitTargets ==
    { <<sa, sb, <<>>>> : sa \in TargetStatesA, sb \in TargetStatesB }
    \cup { <<"free", "free", <<LockFileFile(LockFileName, Sha256("c1"))>>>> }

NoFirst == [kind |-> "-", trace |-> <<>>, disk |-> <<>>]

NoRet == [op |-> "-", name |-> <<>>, err |-> ErrNone, val |-> NoVal, calls |-> <<>>]

NoChanges == [Added |-> <<>>, Removed |-> <<>>]

InitCommon ==
    /\ pure = NewEnsurePure
    /\ records = <<>>
    /\ result = "-"
    /\ errPaths = <<>>
    /\ ret = NoRet
    /\ nops = 0
    /\ oldLock = <<>>
    /\ oldLockIntegrity = NoIntegrity
    /\ filesToMove = <<>>
    /\ checksums = <<>>
    /\ newLockfile = <<>>
    /\ changes = NoChanges
    /\ idx = 1
    /\ moved = <<>>
    /\ trace = <<>>
    /\ first = NoFirst
    /\ disk0 = disk

(* an Executor before ExecRPack is called *)
Init ==
    /\ force \in BOOLEAN
    /\ dryRun \in BOOLEAN
    /\ inputs = InputsPlain
    /\ defInputs = DefInputs
    /\ configInputs = ConfigInputsOf(inputs)
    /\ \E t \in InitTargets :
          disk = WithLockFile(InitDisk(t[1], t[2]), InitLockFiles(t[1], t[2]) \o t[3])
    /\ pc = "start"
    /\ InitCommon

(* os.RemoveAll followed by os.MkdirAll *)
RemoveAll(d, p) == [q \in {r \in DOMAIN d : ~Inside(r, p)} |-> d[q]]

Recreate(d, p) == MkdirAll(RemoveAll(d, p), p).disk

(* LoadRPack: the run and temp directories are emptied and recreated *)
Stage(d) == Recreate(Recreate(d, RunPath), TempPath)

(* an RPackFS as NewRPackFS returns it in ExecRPack, on a staged disk *)
InitFS ==
    /\ force = FALSE
    /\ dryRun = FALSE
    /\ inputs \in InputConfigs
    /\ defInputs = DefInputs
    /\ configInputs = ConfigInputsOf(inputs)
    /\ disk = Stage(WithLockFile(InitDisk("clean", "free"), InitLockFiles("clean", "free")))
    /\ pc = "script"
    /\ InitCommon

(* ---------------------------------------------------------------------- *)
(* the script: calls on the RPackFS                                        *)
(* ---------------------------------------------------------------------- *)

FSState == [pure |-> pure, records |-> records, disk |-> disk]

(* the effect of one FS call with result res *)
Called(c, res) ==
    /\ pure' = res.st.pure
    /\ records' = res.st.records
    /\ disk' = res.st.disk
    /\ ret' = [op |-> c.op, name |-> c.name, err |-> res.err, val |-> res.val, calls |-> res.calls]
    /\ nops' = nops + 1
    /\ trace' = Append(trace, [op |-> c.op, name |-> c.name, data |-> c.data,
                               err |-> res.err, val |-> res.val])
    /\ UNCHANGED << cfgVars, execVars, pc, result, errPaths >>

Write(calls, maxops) ==
    /\ pc = "script" /\ nops < maxops
    /\ \E c \in calls : c.op = "write" /\ Called(c, BaseFSWrite(inputs, FSState, c.name, c.data))

Read(calls, maxops) ==
    /\ pc = "script" /\ nops < maxops
    /\ \E c \in calls : c.op = "read" /\ Called(c, BaseFSRead(inputs, FSState, c.name))

Stat(calls, maxops) ==
    /\ pc = "script" /\ nops < maxops
    /\ \E c \in calls : c.op = "stat" /\ Called(c, BaseFSStat(inputs, FSState, c.name))

ReadDir(calls, maxops) ==
    /\ pc = "script" /\ nops < maxops
    /\ \E c \in calls : c.op = "readdir" /\ Called(c, BaseFSReadDir(inputs, FSState, c.name))

ReadDirAll(calls, maxops) ==
    /\ pc = "script" /\ nops < maxops
    /\ \E c \in calls : c.op = "readdirall" /\ Called(c, BaseFSReadDirAll(inputs, FSState, c.name))

(* ---------------------------------------------------------------------- *)
(* ExecRPack                                                               *)
(* ---------------------------------------------------------------------- *)

ResOK == "ok"
ErrConfig == "ConfigError"
ErrLoad == "LoadError"
ErrDefinition == "DefinitionError"
ErrValidation == "ValidationError"
ErrScript == "ScriptError"
ErrPurity == "PurityError"
ErrChecksum == "ChecksumError"
ErrLockfile == "LockfileError"
ErrIntegrity == "IntegrityError"
ErrOverwrite == "OverwriteError"
ErrCommit == "CommitError"

Return(r, paths) ==
    /\ pc' = "done"
    /\ result' = r
    /\ errPaths' = paths

Goto(p) ==
    /\ pc' = p
    /\ UNCHANGED << result, errPaths >>

(* ExecRPack returned nil *)
Succeeded == pc = "done" /\ result = ResOK

(* and it was no dry run *)
Committed == Succeeded /\ ~dryRun

(* LoadRPackConfig, LoadRPack, SetupRPackDefInstance, ValidateConfig and   *)
(* ValidateRPackInputs: each may fail; LoadRPack empties the staging       *)
(* directories before it fetches the source and resolves the inputs        *)
Load ==
    /\ pc = "start"
    /\ \E outcome \in {ResOK, ErrConfig, ErrLoad, ErrDefinition, ErrValidation} :
          /\ lockDisk.err => outcome = ErrConfig
          /\ disk' = IF outcome = ErrConfig THEN disk ELSE Stage(disk)
          /\ IF outcome = ResOK
             THEN Goto("script") /\ oldLock' = lockDisk.files
             ELSE Return(outcome, <<>>) /\ UNCHANGED oldLock
    /\ pure' = NewEnsurePure
    /\ records' = <<>>
    /\ UNCHANGED << cfgVars, ret, nops, trace, oldLockIntegrity, filesToMove, checksums, newLockfile, changes, idx,
                    moved >>

(* the script raises an error (its own, or one an FS call returned) *)
ScriptRaise ==
    /\ pc = "script"
    /\ Return(ErrScript, <<>>)
    /\ UNCHANGED << cfgVars, execVars, disk, pure, records, ret, nops, trace >>

ScriptReturn ==
    /\ pc = "script"
    /\ Goto("check")
    /\ UNCHANGED << cfgVars, execVars, disk, pure, records, ret, nops, trace >>

(* fs.Check() *)
Check ==
    /\ pc = "check"
    /\ IF RPackFSCheck(pure) # ErrNone THEN Return(ErrPurity, <<>>) ELSE Goto("dryrun")
    /\ UNCHANGED << cfgVars, execVars, disk, pure, records, ret, nops, trace >>

(* ExecRPack without the dry-run branch *)
DryRunBranchOff ==
    /\ pc = "dryrun"
    /\ Goto("checksum")
    /\ UNCHANGED << cfgVars, execVars, disk, pure, records, ret, nops, trace >>

(* if e.DryRun { return nil } *)
DryRunBranch ==
    /\ pc = "dryrun"
    /\ IF dryRun THEN Return(ResOK, <<>>) ELSE Goto("checksum")
    /\ UNCHANGED << cfgVars, execVars, disk, pure, records, ret, nops, trace >>

ControlledFile(path, absPath) == [Path |-> path, AbsPath |-> absPath]

(* the loop over fs.TargetWriteHandles(): visitedPaths, checksums and      *)
(* filesToMove                                                             *)
RECURSIVE ChecksumLoop(_, _, _)
ChecksumLoop(handles, d, acc) ==
    IF handles = <<>> THEN acc
    ELSE With(ControlledFile(Head(handles).indirectTargetPath,
                             Clean(Join(RunPath, Head(handles).indirectTargetPath))), LAMBDA c :
        IF c.AbsPath \in DOMAIN acc.checksums THEN ChecksumLoop(Tail(handles), d, acc)
        ELSE With(Sha256File(d, c.AbsPath), LAMBDA chsum :
            IF chsum.err THEN [acc EXCEPT !.err = TRUE, !.at = <<c.AbsPath>>]
            ELSE ChecksumLoop(Tail(handles), d,
                              [acc EXCEPT !.checksums = Put(@, c.AbsPath, chsum.sha),
                                          !.filesToMove = Append(@, c)])))

Checksum ==
    /\ pc = "checksum"
    /\ With(ChecksumLoop(TargetWriteHandles(records), disk,
                         [checksums |-> <<>>, filesToMove |-> <<>>, err |-> FALSE, at |-> <<>>]),
            LAMBDA acc :
              IF acc.err
              THEN Return(ErrChecksum, acc.at) /\ UNCHANGED << filesToMove, checksums >>
              ELSE Goto("integrity") /\ filesToMove' = acc.filesToMove
                                     /\ checksums' = acc.checksums)
    /\ UNCHANGED << cfgVars, disk, pure, records, ret, nops, trace, newLockfile, changes, idx,
                    oldLock, oldLockIntegrity, moved >>

(* `if len(oldLockIntegrity.Modified) > 0 { ... if !e.Force { return ... } }` *)
IntegrityGateAborts(f, modified) == modified # <<>> /\ ~f

(* oldLock.CheckIntegrity(execPath) and the force check *)
IntegrityGate ==
    /\ pc = "integrity"
    /\ With(CheckIntegrity(oldLock, ExecPath, disk), LAMBDA integ :
          /\ oldLockIntegrity' = integ
          /\ IF integ.err THEN Return(ErrLockfile, <<>>)
             ELSE IF IntegrityGateAborts(force, integ.Modified)
             THEN Return(ErrIntegrity, integ.Modified)
             ELSE Goto("newlock"))
    /\ UNCHANGED << cfgVars, filesToMove, checksums, newLockfile, changes, idx, oldLock, moved,
                    disk, pure, records, ret, nops, trace >>

(* NewRPackLockFile, AddFile for every file to move, Changes *)
BuildLockfile ==
    /\ pc = "newlock"
    /\ With([i \in 1..Len(filesToMove) |->
                LockFileFile(filesToMove[i].Path, checksums[filesToMove[i].AbsPath])],
            LAMBDA lf : newLockfile' = lf /\ changes' = Changes(lf, oldLock))
    /\ Goto("overwrite")
    /\ UNCHANGED << cfgVars, disk, pure, records, ret, nops, trace, oldLockIntegrity, filesToMove, checksums,
                    idx, oldLock, moved >>

(* an overwrite loop that stops at nothing, as with force *)
OverwriteLoopForced(added, d, f) == <<>>

(* the first added path the overwrite loop stops at, or <<>> *)
RECURSIVE OverwriteLoop(_, _, _)
OverwriteLoop(added, d, f) ==
    IF added = <<>> THEN <<>>
    ELSE IF FileExists(d, Clean(Join(ExecPath, Head(added)))).exists /\ ~f THEN <<Head(added)>>
    ELSE OverwriteLoop(Tail(added), d, f)

AfterMove == IF changes.Removed # <<>> THEN "remove" ELSE "lockfile"

AfterGates == IF filesToMove # <<>> THEN "move" ELSE AfterMove

OverwriteGate ==
    /\ pc = "overwrite"
    /\ With(OverwriteLoop(changes.Added, disk, force), LAMBDA stop :
          IF stop # <<>> THEN Return(ErrOverwrite, stop) ELSE Goto(AfterGates))
    /\ UNCHANGED << cfgVars, execVars, disk, pure, records, ret, nops, trace >>

(* os.Rename of a regular file: replaces a file, fails on a directory *)
Rename(d, src, dst) ==
    IF ~IsFileAt(d, src) \/ IsDirAt(d, dst) \/ ~IsDirAt(d, Dir(dst)) THEN [disk |-> d, ok |-> FALSE]
    ELSE [disk |-> Put(Del(d, src), dst, d[src]), ok |-> TRUE]

(* the next round of a loop over n elements, or what follows the loop *)
NextRound(n, after) ==
    IF idx < n THEN idx' = idx + 1 /\ Goto(pc) ELSE idx' = 1 /\ Goto(after)

(* one round of the loop that moves the staged files *)
MoveFile ==
    /\ pc = "move"
    /\ With(filesToMove[idx], LAMBDA wFile :
       With(Clean(Join(ExecPath, wFile.Path)), LAMBDA targetFile :
       With(MkdirAll(disk, Dir(targetFile)), LAMBDA mk :
          IF ~mk.ok THEN Return(ErrCommit, <<targetFile>>) /\ UNCHANGED << disk, idx, moved >>
          ELSE With(Rename(mk.disk, wFile.AbsPath, targetFile), LAMBDA rn :
                /\ disk' = rn.disk
                /\ IF ~rn.ok THEN Return(ErrCommit, <<wFile.Path>>) /\ UNCHANGED << idx, moved >>
                   ELSE NextRound(Len(filesToMove), AfterMove)
                        /\ moved' = Append(moved, targetFile)))))
    /\ UNCHANGED << cfgVars, pure, records, ret, nops, trace, oldLockIntegrity, filesToMove, checksums,
                    newLockfile, changes, oldLock >>

(* one round of the loop that removes the files no longer written *)
RemoveObsolete ==
    /\ pc = "remove"
    /\ With(changes.Removed[idx], LAMBDA removedFile :
       With(Join(ExecPath, removedFile), LAMBDA p :
       With(FileExists(disk, p), LAMBDA fe :
          IF fe.err THEN Return(ErrCommit, <<removedFile>>) /\ UNCHANGED << disk, idx >>
          ELSE /\ disk' = IF fe.exists THEN Del(disk, p) ELSE disk
               /\ NextRound(Len(changes.Removed), "lockfile"))))
    /\ UNCHANGED << cfgVars, pure, records, ret, nops, trace, oldLockIntegrity, filesToMove, checksums,
                    newLockfile, changes, oldLock, moved >>

(* newLockfile.WriteFile(ci.LockFilePath) *)
PersistLockfile ==
    /\ pc = "lockfile"
    /\ With(RPackLockFileWriteFile(disk, LockFilePath, newLockfile), LAMBDA wr :
          /\ disk' = wr.disk
          /\ IF wr.ok THEN Return(ResOK, <<>>) ELSE Return(ErrCommit, <<LockFileName>>))
    /\ UNCHANGED << cfgVars, execVars, pure, records, ret, nops, trace >>

Next ==
    \/ Load
    \/ Write(ScriptCalls, MaxOps)
    \/ Read(ScriptCalls, MaxOps)
    \/ ReadDir(ScriptCalls, MaxOps)
    \/ ScriptRaise
    \/ ScriptReturn
    \/ Check
    \/ DryRunBranch
    \/ Checksum
    \/ IntegrityGate
    \/ BuildLockfile
    \/ OverwriteGate
    \/ MoveFile
    \/ RemoveObsolete
    \/ PersistLockfile

Spec == Init /\ [][Next]_vars

(* runs of scripts that copy what they read *)
InitPure ==
    /\ force \in BOOLEAN
    /\ dryRun \in BOOLEAN
    /\ inputs = InputsPlain
    /\ defInputs = DefInputs
    /\ configInputs = ConfigInputsOf(inputs)
    /\ \E ts \in {"free", "clean"} :
          disk = WithLockFile(InitDisk(ts, ts), InitLockFiles(ts, ts))
    /\ pc = "start"
    /\ InitCommon

NextPure ==
    \/ Load
    \/ Write(PureCalls, MaxOps)
    \/ Read(PureCalls, MaxOps)
    \/ ReadDir(PureCalls, MaxOps)
    \/ ScriptRaise
    \/ ScriptReturn
    \/ Check
    \/ DryRunBranch
    \/ Checksum
    \/ IntegrityGate
    \/ BuildLockfile
    \/ OverwriteGate
    \/ MoveFile
    \/ RemoveObsolete
    \/ PersistLockfile

SpecPure == InitPure /\ [][NextPure]_vars

(* ---------------------------------------------------------------------- *)
(* one script run twice                                                    *)
(* ---------------------------------------------------------------------- *)

(* lo.Keys over the inputs of the config: the names in the order in which  *)
(* the map is iterated, which is any order                                 *)
Keys(ins) ==
    { k \in [1..Len(ins) -> {ins[i].Name : i \in 1..Len(ins)}] :
        \A i, j \in 1..Len(ins) : i # j => k[i] # k[j] }

(* two answers the script cannot tell apart *)
Same(a, b) ==
    /\ a.op = b.op /\ a.name = b.name /\ a.data = b.data
    /\ a.err = b.err
    /\ a.err # ErrNone \/ a.val = b.val

(* the script got an answer that it did not get in the first run *)
Diverged ==
    /\ first.kind # "-"
    /\ \E i \in 1..Len(trace) : i > Len(first.trace) \/ ~Same(trace[i], first.trace[i])

(* a script is a deterministic program: in the second run it asks for what *)
(* it asked for in the first, as long as it gets the answers of the first  *)
Replays == first.kind # "-" /\ ~Diverged

NextAsk == first.trace[Len(trace) + 1]

MayAsk(op, name, data) ==
    Replays =>
        /\ Len(trace) < Len(first.trace)
        /\ NextAsk.op = op /\ NextAsk.name = name /\ NextAsk.data = data

Allowed(calls) == {c \in calls : MayAsk(c.op, c.name, c.data)}

MayReturn == Replays => Len(trace) = Len(first.trace)

(* the first run returned nil, so its script raised nothing *)
MayRaise == ~Replays

(* the script reads the list of input names *)
ScriptInputs(maxops) ==
    /\ pc = "script" /\ nops < maxops
    /\ MayAsk("inputs", <<>>, NoVal)
    /\ \E k \in Keys(inputs) :
          trace' = Append(trace, [op |-> "inputs", name |-> <<>>, data |-> NoVal,
                                  err |-> ErrNone, val |-> k])
    /\ nops' = nops + 1
    /\ UNCHANGED << cfgVars, execVars, disk, pure, records, pc, result, errPaths, ret >>

(* ExecRPack is called again with the same config, source and inputs *)
Rerun(kind, d) ==
    /\ first.kind = "-"
    /\ first' = [kind |-> kind, trace |-> trace, disk |-> disk]
    /\ disk' = d
    /\ disk0' = d
    /\ pc' = "start"
    /\ result' = "-"
    /\ errPaths' = <<>>
    /\ ret' = NoRet
    /\ nops' = 0
    /\ trace' = <<>>
    /\ pure' = NewEnsurePure
    /\ records' = <<>>
    /\ oldLock' = <<>>
    /\ oldLockIntegrity' = NoIntegrity
    /\ filesToMove' = <<>>
    /\ checksums' = <<>>
    /\ newLockfile' = <<>>
    /\ changes' = NoChanges
    /\ idx' = 1
    /\ moved' = <<>>
    /\ UNCHANGED << force, dryRun, inputs, defInputs, configInputs >>

(* ExecRPack returned nil and is called again *)
Restart(kind, d) == Succeeded /\ Rerun(kind, d)

(* the second of two runs that start from the same exec path *)
RunFromSameStart == Restart("same", disk0)

(* the run that follows the first, with nothing changed in between *)
RunFollowing == Restart("following", disk)

InitRuns ==
    /\ force \in BOOLEAN
    /\ dryRun \in BOOLEAN
    /\ inputs = InputsPlain
    /\ defInputs = DefInputs
    /\ configInputs = ConfigInputsOf(inputs)
    /\ \E sb \in {"free", "clean"} :
          disk = WithLockFile(InitDisk("free", sb), InitLockFiles("free", sb))
    /\ pc = "start"
    /\ InitCommon

NextRuns ==
    \/ Load
    \/ Write(Allowed(RunCalls), MaxRunOps)
    \/ ScriptInputs(MaxRunOps)
    \/ MayRaise /\ ScriptRaise
    \/ MayReturn /\ ScriptReturn
    \/ Check
    \/ DryRunBranch
    \/ Checksum
    \/ IntegrityGate
    \/ BuildLockfile
    \/ OverwriteGate
    \/ MoveFile
    \/ RemoveObsolete
    \/ PersistLockfile
    \/ RunFromSameStart
    \/ RunFollowing

SpecRuns == InitRuns /\ [][NextRuns]_vars

(* ---------------------------------------------------------------------- *)
(* ValidateRPackInputs on resolved and declared inputs of every shape      *)
(* ---------------------------------------------------------------------- *)

InputNames == { <<"fi">>, <<"di">> }

ResolvedInputsOf == { RPackResolvedInput(n, n, t) :
                        n \in InputNames, t \in {RPackInputTypeFile, RPackInputTypeDirectory} }

DefInputsOf == { RPackDefInput(n, t) :
                   n \in InputNames, t \in {RPackDefInputTypeFile, RPackDefInputTypeDirectory} }

ListsOver(S) == UNION { [1..n -> S] : n \in 0..MaxInputs }

InitValidate ==
    /\ force = FALSE
    /\ dryRun = FALSE
    /\ inputs \in ListsOver(ResolvedInputsOf)
    /\ defInputs \in ListsOver(DefInputsOf)
    /\ configInputs = ConfigInputsOf(inputs)
    /\ disk = InitDisk("free", "free")
    /\ pc = "start"
    /\ InitCommon

(* err = ValidateRPackInputs(pi.ResolvedInputs, definst.Def.Inputs) *)
Validate ==
    /\ pc = "start"
    /\ With(ValidateRPackInputs(inputs, defInputs), LAMBDA e :
          IF e = "ok" THEN Return(ResOK, <<>>) ELSE Return(ErrValidation, <<e>>))
    /\ UNCHANGED << cfgVars, execVars, disk, pure, records, ret, nops, trace >>

NextValidate == Validate

SpecValidate == InitValidate /\ [][NextValidate]_vars

(* ---------------------------------------------------------------------- *)
(* RPackLockFile.Changes and RPackLockFile.CheckIntegrity on lockfiles of  *)
(* every shape                                                             *)
(* ---------------------------------------------------------------------- *)

LockFileFilesOf == { LockFileFile(p, Sha256(c)) : p \in {P("a"), P("b")}, c \in {"c1", "c2"} }

LockFiles == UNION { [1..n -> LockFileFilesOf] : n \in 0..MaxLockFiles }

(* a and b in the exec path: a file with the bytes c1 or c2, a directory,  *)
(* nothing                                                                 *)
InitLock ==
    /\ force = FALSE
    /\ dryRun = FALSE
    /\ inputs = InputsPlain
    /\ defInputs = DefInputs
    /\ configInputs = ConfigInputsOf(inputs)
    /\ \E sa \in {"free", "clean", "modified", "dir"}, sb \in {"free", "clean"} :
          disk = InitDisk(sa, sb)
    /\ pc = "start"
    /\ InitCommon

(* the two lockfiles of a comparison, or the one of a check *)
LockLoad ==
    /\ pc = "start"
    /\ pc' = "loaded"
    /\ newLockfile' \in LockFiles
    /\ oldLock' \in LockFiles
    /\ UNCHANGED << cfgVars, filesToMove, checksums, changes, idx, oldLockIntegrity, moved,
                    disk, pure, records, ret, nops, trace, result, errPaths >>

(* changes := newLockfile.Changes(oldLock) *)
LockChanges ==
    /\ pc = "loaded"
    /\ pc' = "changes"
    /\ changes' = Changes(newLockfile, oldLock)
    /\ UNCHANGED << cfgVars, filesToMove, checksums, newLockfile, idx, oldLock, oldLockIntegrity,
                    moved, disk, pure, records, ret, nops, trace, result, errPaths >>

(* oldLockIntegrity, err := oldLock.CheckIntegrity(execPath) *)
LockCheckIntegrity ==
    /\ pc = "loaded"
    /\ pc' = "integrity"
    /\ oldLockIntegrity' = CheckIntegrity(oldLock, ExecPath, disk)
    /\ UNCHANGED << cfgVars, filesToMove, checksums, newLockfile, changes, idx, oldLock, moved,
                    disk, pure, records, ret, nops, trace, result, errPaths >>

NextLock ==
    \/ LockLoad
    \/ LockChanges
    \/ LockCheckIntegrity

SpecLock == InitLock /\ [][NextLock]_vars

(* ---------------------------------------------------------------------- *)
(* ResolveRPackInputs on configs of every shape                            *)
(* ---------------------------------------------------------------------- *)

UserPathAtoms == {Sep, ".", "..", "d", "f", "x"}

(* a word is followed by a separator *)
UserPathOK(t) == \A i \in 1..(Len(t) - 1) : t[i] # Sep => t[i + 1] = Sep

UserPaths == UNION { {t \in [1..n -> UserPathAtoms] : UserPathOK(t)} : n \in 0..MaxPathLen }

(* the path of the second input of a config with two inputs *)
UserPathsOfSecond == { <<"d">>, <<"f">>, <<".">>, <<"x">>, <<Sep, "d">>, <<"..">> }

ConfigInputs ==
    { [n \in {} |-> <<>>] }
    \cup { [n \in {<<"fi">>} |-> p] : p \in UserPaths }
    \cup { [n \in InputNames |-> IF n = <<"fi">> THEN p ELSE q] : p \in UserPaths, q \in UserPathsOfSecond }

(* the orders in which a map with the keys of config is ranged over *)
RangeOrders(config) ==
    With(Cardinality(DOMAIN config), LAMBDA n :
        { k \in [1..n -> DOMAIN config] : \A i, j \in 1..n : i # j => k[i] # k[j] })

InitResolve ==
    /\ force = FALSE
    /\ dryRun = FALSE
    /\ inputs = <<>>
    /\ defInputs = DefInputs
    /\ configInputs \in ConfigInputs
    /\ disk = InitDisk("free", "free")
    /\ pc = "start"
    /\ InitCommon

(* resolvedInputs, err := ResolveRPackInputs(ci.Config.Config.Inputs, execPath) *)
ResolveInputs ==
    /\ pc = "start"
    /\ \E order \in RangeOrders(configInputs) :
          With(ResolveRPackInputs(order, configInputs, ExecPath, disk), LAMBDA r :
              IF r.err = ErrNone
              THEN inputs' = r.inputs /\ Return(ResOK, <<>>)
              ELSE inputs' = inputs /\ Return(ErrLoad, <<r.err>>))
    /\ UNCHANGED << force, dryRun, defInputs, configInputs, disk0, first, execVars, disk, pure,
                    records, ret, nops, trace >>

NextResolve == ResolveInputs

SpecResolve == InitResolve /\ [][NextResolve]_vars

(* ---------------------------------------------------------------------- *)
(* a script that writes lines to a scratch file and reads lines            *)
(* ---------------------------------------------------------------------- *)

LineAtoms == {"a", "\r", "\n"}

Lines == UNION { [1..n -> LineAtoms] : n \in 0..MaxLineLen }

LineLists == UNION { [1..n -> Lines] : n \in 0..MaxLines }

Separators == {LF, CRLF}

LinesNames == { Pre("temp", P("t")), Pre("temp", P("u")) }

(* rpack.write_lines(name, lines, sep, finalNewline), the first call of    *)
(* the script                                                              *)
WriteLines ==
    /\ pc = "script" /\ nops = 0
    /\ \E name \in LinesNames, lines \in LineLists, sep \in Separators, finalNewline \in BOOLEAN :
          Called(CallOf("write_lines", name,
                        [lines |-> lines, sep |-> sep, finalNewline |-> finalNewline]),
                 BaseFSWrite(inputs, FSState, name, luaWriteLines(lines, sep, finalNewline)))

(* rpack.read_lines(name) *)
ReadLines ==
    /\ pc = "script" /\ nops > 0 /\ nops < MaxFSOps
    /\ \E name \in LinesNames :
          With(BaseFSRead(inputs, FSState, name), LAMBDA rd :
              Called(CallOf("read_lines", name, NoVal),
                     IF rd.err # ErrNone THEN rd
                     ELSE [rd EXCEPT !.val = luaReadLines(rd.val)]))

NextLines ==
    \/ WriteLines
    \/ ReadLines
    \/ ScriptReturn
    \/ Check

SpecLines == InitFS /\ [][NextLines]_vars

(* ---------------------------------------------------------------------- *)
(* a run whose commit fails half way, and the run after it                 *)
(* ---------------------------------------------------------------------- *)

RecoverCalls == { CallOf("write", P("a"), "c1"), CallOf("write", P("b"), "c1") }

InitRecover ==
    /\ force = FALSE
    /\ dryRun = FALSE
    /\ inputs = InputsPlain
    /\ defInputs = DefInputs
    /\ configInputs = ConfigInputsOf(inputs)
    /\ \E sa \in {"free", "clean", "unmanaged"}, sb \in {"free", "clean", "dir"} :
          disk = WithLockFile(InitDisk(sa, sb), InitLockFiles(sa, sb))
    /\ pc = "start"
    /\ InitCommon

(* one round of the move loop in which os.Rename returns an error that the *)
(* state of the disk does not explain (EIO, ENOSPC, EACCES, EXDEV)         *)
RenameIOError ==
    /\ pc = "move"
    /\ first.kind = "-"
    /\ With(Clean(Join(ExecPath, filesToMove[idx].Path)), LAMBDA targetFile :
       With(MkdirAll(disk, Dir(targetFile)), LAMBDA mk :
          /\ mk.ok
          /\ disk' = mk.disk
          /\ Return(ErrCommit, <<filesToMove[idx].Path>>)))
    /\ UNCHANGED << cfgVars, execVars, pure, records, ret, nops, trace >>

(* ExecRPack failed in the move loop or the remove loop and is called      *)
(* again, with nothing changed in between                                  *)
RunAfterFailedCommit ==
    /\ pc = "done" /\ result = ErrCommit
    /\ errPaths # <<LockFileName>>
    /\ Rerun("recovery", disk)

NextRecover ==
    \/ Load
    \/ Write(Allowed(RecoverCalls), MaxRunOps)
    \/ MayRaise /\ ScriptRaise
    \/ MayReturn /\ ScriptReturn
    \/ Check
    \/ DryRunBranch
    \/ Checksum
    \/ IntegrityGate
    \/ BuildLockfile
    \/ OverwriteGate
    \/ MoveFile
    \/ RenameIOError
    \/ RemoveObsolete
    \/ PersistLockfile
    \/ RunAfterFailedCommit

SpecRecover == InitRecover /\ [][NextRecover]_vars

(* ---------------------------------------------------------------------- *)
(* the check command                                                       *)
(* ---------------------------------------------------------------------- *)

ErrRemoved == "RemovedError"

(* Checker.CheckIntegrity without the lists: modified entries only, as the *)
(* gate of ExecRPack                                                       *)
CheckerReportsModified(integ) == integ.Modified # <<>>

(* the two `if len(...) > 0` of Checker.CheckIntegrity *)
CheckerReports(integ) == integ.Modified # <<>> \/ integ.Removed # <<>>

(* Checker.CheckIntegrity: LoadRPackConfig, then the lockfile against the  *)
(* exec path; called before a run or after one has ended                   *)
CheckerCheckIntegrity ==
    /\ pc \in {"start", "done"}
    /\ pc' = "checked"
    /\ \E outcome \in {ResOK, ErrConfig} :
          /\ lockDisk.err => outcome = ErrConfig
          /\ IF outcome = ErrConfig THEN result' = ErrConfig /\ errPaths' = <<>>
             ELSE With(CheckIntegrity(lockDisk.files, ExecPath, disk), LAMBDA integ :
                     IF integ.err THEN result' = ErrLockfile /\ errPaths' = <<>>
                     ELSE IF ~CheckerReports(integ) THEN result' = ResOK /\ errPaths' = <<>>
                     ELSE IF integ.Modified # <<>>
                     THEN result' = ErrIntegrity /\ errPaths' = integ.Modified
                     ELSE result' = ErrRemoved /\ errPaths' = integ.Removed)
    /\ UNCHANGED << cfgVars, execVars, disk, pure, records, ret, nops, trace >>

NextCheck ==
    \/ Load
    \/ Write(RunCalls, MaxRunOps)
    \/ ScriptRaise
    \/ ScriptReturn
    \/ Check
    \/ DryRunBranch
    \/ Checksum
    \/ IntegrityGate
    \/ BuildLockfile
    \/ OverwriteGate
    \/ MoveFile
    \/ RemoveObsolete
    \/ PersistLockfile
    \/ CheckerCheckIntegrity

SpecCheck == Init /\ [][NextCheck]_vars

(* the calls on one RPackFS, then fs.Check() *)
NextFS ==
    \/ Write(FSCalls, MaxFSOps)
    \/ Read(FSCalls, MaxFSOps)
    \/ Stat(FSCalls, MaxFSOps)
    \/ ReadDir(FSCalls, MaxFSOps)
    \/ ReadDirAll(FSCalls, MaxFSOps)
    \/ ScriptReturn
    \/ Check

SpecFS == InitFS /\ [][NextFS]_vars

(* one call with a probed name on a new RPackFS *)
NextProbe ==
    \/ Write(ProbeCalls, 1)
    \/ Read(ProbeCalls, 1)
    \/ Stat(ProbeCalls, 1)
    \/ ReadDir(ProbeCalls, 1)
    \/ ReadDirAll(ProbeCalls, 1)

SpecProbe == InitFS /\ [][NextProbe]_vars

(* ---------------------------------------------------------------------- *)
(* one call with a probed name when the input directory d may hold a       *)
(* directory that cannot be read                                           *)
(* ---------------------------------------------------------------------- *)

InitTree ==
    /\ force = FALSE
    /\ dryRun = FALSE
    /\ inputs \in InputConfigs
    /\ defInputs = DefInputs
    /\ configInputs = ConfigInputsOf(inputs)
    /\ \E tree \in { InitDisk("clean", "free"),
                      Put(InitDisk("clean", "free"), Join(ExecPath, N2("d", "y")), UnreadableDirEntry) } :
          disk = Stage(WithLockFile(tree, InitLockFiles("clean", "free")))
    /\ pc = "script"
    /\ InitCommon

SpecTree == InitTree /\ [][NextProbe]_vars

(* ---------------------------------------------------------------------- *)
(* vocabulary of the properties                                            *)
(* ---------------------------------------------------------------------- *)

KnownPrefixes == { <<"rpack", ":">>, <<"temp", ":">>, <<"map", ":">> }

HasKnownPrefix(name) == \E p \in KnownPrefixes : HasPrefix(name, p)

(* the part of a name after its rpack:, temp: or map: prefix *)
TailOf(name) == IF HasKnownPrefix(name) THEN Drop(name, 2) ELSE name

(* the name passed the resolvers *)
WasResolved == ret.op # "-" /\ ret.err \notin PathErrors

ObservingOps == {"read", "stat", "readdir", "readdirall"}

CacheDir == ExecPath \o <<Sep>> \o RPackCacheDir

(* what lies in the exec path outside the cache *)
ExecTree(d) == [p \in {q \in DOMAIN d : ~Inside(q, CacheDir)} |-> d[p]]

(* the paths whose entry differs from the one at the start *)
Touched == {p \in DOMAIN disk \cup DOMAIN disk0 :
               p \notin DOMAIN disk \/ p \notin DOMAIN disk0 \/ disk[p] # disk0[p]}

RecordedPaths(typ, resolver) ==
    { records[i].Handle.indirectTargetPath :
        i \in {j \in 1..Len(records) : records[j].Typ = typ /\ records[j].Handle.resolver = resolver} }

WrittenPaths == RecordedPaths(FSAccessTypeWrite, TargetResolver)

(* w matches the glob D/* *)
GlobPrefix(D) == IF D = Dot THEN <<>> ELSE D \o <<Sep>>

InGlob(D, w) == HasPrefix(w, GlobPrefix(D)) /\ ~Contains(Drop(w, Len(GlobPrefix(D))), Sep)

(* the three conflicts between what was observed of the inputs and what was written *)
PurityConflict ==
    \/ RecordedPaths(FSAccessTypeRead, MapResolver) \cap WrittenPaths # {}
    \/ RecordedPaths(FSAccessTypeStat, MapResolver) \cap WrittenPaths # {}
    \/ \E D \in RecordedPaths(FSAccessTypeReadDir, MapResolver) : \E w \in WrittenPaths : InGlob(D, w)

(* the run ended in a step before the integrity gate *)
BeforeIntegrity == {ErrConfig, ErrLoad, ErrDefinition, ErrValidation, ErrScript, ErrPurity,
                    ErrChecksum, ErrLockfile}

BeforeCommit == BeforeIntegrity \cup {ErrIntegrity, ErrOverwrite}

Stopped(errs) == pc = "done" /\ result \in errs

(* nothing was moved into or removed from the exec path, no lockfile written *)
NothingCommitted == ExecTree(disk) = ExecTree(disk0) /\ lockDisk = lock0

(* every target write the recorder holds still has its staged file *)
StagingKept ==
    \A i \in 1..Len(records) :
        TargetTransferHandleFilterFn(records[i]) => IsFileAt(disk, records[i].Handle.absPath)

(* the locked paths whose file in the exec path no longer has the locked sum *)
ModifiedAtStart ==
    { lock0.files[i].Path :
        i \in {j \in 1..Len(lock0.files) :
                  /\ IsFileAt(disk0, Join(ExecPath, lock0.files[j].Path))
                  /\ Sha256(disk0[Join(ExecPath, lock0.files[j].Path)].data) # lock0.files[j].Sha} }

Range(s) == {s[i] : i \in 1..Len(s)}

(* written paths that are not locked and have a file in the exec path *)
AddedOverExisting ==
    {w \in WrittenPaths : w \notin PathsOf(lock0.files) /\ IsFileAt(disk0, Join(ExecPath, w))}

(* ---------------------------------------------------------------------- *)
(* the target is write-only                                                *)
(* ---------------------------------------------------------------------- *)

(* C1: after any calls, a Read, Stat, ReadDir or ReadDirAll on a name      *)
(* without an rpack:, temp: or map: prefix that passes the resolvers fails *)
(* with the access-denied error, calls no handle and returns no value.     *)
C1_TargetWriteOnly ==
    (ret.op \in ObservingOps /\ WasResolved /\ ~HasKnownPrefix(ret.name))
        => (ret.err = ErrAccessDenied /\ ret.calls = <<>> /\ ret.val = NoVal)

(* a read of the target name a, denied although a was staged by the call before *)
C1_Witness ==
    /\ nops = 2
    /\ ret.op = "read" /\ ret.name = P("a") /\ ret.err = ErrAccessDenied
    /\ IsFileAt(disk, Join(RunPath, P("a")))

(* ---------------------------------------------------------------------- *)
(* purity                                                                  *)
(* ---------------------------------------------------------------------- *)

(* C2: at the end of the script the purity check fails if and only if the  *)
(* recorded operations hold a map read and a target write of the same path, *)
(* a map stat and a target write of the same path, or a map readdir of D    *)
(* and a target write that matches D/*, in whatever order they happened.    *)
C2_ConflictsExactly ==
    pc \in {"dryrun", "done"} => ((result = ErrPurity) <=> PurityConflict)

WriteDenied ==
    (ret.op = "write" /\ WasResolved /\ HasKnownPrefix(ret.name)
        /\ ~HasPrefix(ret.name, <<"temp", ":">>))
        => (ret.err = ErrAccessDenied /\ ret.calls = <<>>)

InputBases(name) ==
    { inputs[i].ResolvedPath :
        i \in {j \in 1..Len(inputs) : inputs[j].Name = Cut(TailOf(name), Sep).before} }

BasesOf(name) ==
    IF HasPrefix(name, <<"rpack", ":">>) THEN {SourcePath}
    ELSE IF HasPrefix(name, <<"temp", ":">>) THEN {TempPath}
    ELSE IF HasPrefix(name, MapFSResolverPrefix) THEN InputBases(name)
    ELSE {RunPath}

InBase(name, absPath) == \E b \in BasesOf(name) : Inside(absPath, b)

(* C5: for every name, a handle the resolvers return without an error has  *)
(* its absolute path inside the base of its resolver, and so has every     *)
(* handle call an operation on that name makes.                            *)
C5_Containment ==
    ret.op # "-" =>
        /\ resolve(inputs, ret.name).err = ErrNone
              => InBase(ret.name, resolve(inputs, ret.name).h.absPath)
        /\ \A i \in 1..Len(ret.calls) : InBase(ret.name, ret.calls[i].absPath)

(* temp:x/.. is the temp path itself *)
C5_Witness ==
    /\ ret.op = "stat" /\ ret.name = <<"temp", ":", "x", Sep, "..">>
    /\ ret.err = ErrNone
    /\ ret.calls = <<[op |-> "stat", absPath |-> TempPath]>>

(* the cleaned path leaves the directory it is relative to *)
Escapes(t) == Clean(t) = DotDot \/ HasPrefix(Clean(t), <<"..", Sep>>)

(* the tail of the name is absolute or escapes the base of its resolver *)
EscapingName(name) ==
    \/ IsAbs(TailOf(name))
    \/ Escapes(TailOf(name))
    \/ /\ HasPrefix(name, MapFSResolverPrefix)
       /\ Cut(TailOf(name), Sep).found
       /\ IsAbs(Cut(TailOf(name), Sep).after) \/ Escapes(Cut(TailOf(name), Sep).after)

(* C6: every operation on a name whose tail after the rpack:, temp:, map:  *)
(* or empty prefix is absolute or escapes its base fails with a path error: *)
(* no later resolver takes the name, no hook runs, no handle is called and *)
(* nothing is recorded or written.                                         *)
C6_EscapeFails ==
    (ret.op # "-" /\ EscapingName(ret.name))
        => /\ ret.err \in PathErrors
           /\ ret.calls = <<>>
           /\ records = <<>> /\ pure = NewEnsurePure
           /\ disk = disk0

(* map:di/.. leaves the mapped directory *)
C6_Witness ==
    /\ ret.op = "readdirall" /\ ret.name = <<"map", ":", "di", Sep, "..">>
    /\ ret.err = ErrNotLocal

(* the name is PREFIX:REST with a prefix other than rpack, temp and map *)
UnknownPrefix(name) ==
    /\ Contains(name, ":")
    /\ ~Contains(Cut(name, ":").before, Sep)
    /\ Cut(name, ":").before \notin {<<"rpack">>, <<"temp">>, <<"map">>}

(* C7: every operation on a name PREFIX:REST whose prefix is not rpack,    *)
(* temp or map fails with a path error, and nothing is staged or recorded. *)
C7_UnknownPrefixFails ==
    (ret.op # "-" /\ UnknownPrefix(ret.name))
        => (ret.err \in PathErrors /\ records = <<>> /\ disk = disk0)

(* ---------------------------------------------------------------------- *)
(* the gates of the commit                                                 *)
(* ---------------------------------------------------------------------- *)

(* C8: a run without force over a locked file that was modified, if it does *)
(* not end in a step before the gate, ends with the integrity error naming *)
(* the modified paths, with the exec path and the lockfile file as before. *)
C8_IntegrityGate ==
    (pc = "done" /\ ~force /\ ModifiedAtStart # {} /\ result \notin BeforeIntegrity)
        => /\ result = ErrIntegrity
           /\ Range(errPaths) = ModifiedAtStart
           /\ NothingCommitted

(* C9: a run without force that wrote an unlocked path which has a file in *)
(* the exec path, if it does not end before the gate, ends with the        *)
(* overwrite error and the exec path and the lockfile file as before; a    *)
(* run with force that ends well has replaced the file by the staged one.  *)
C9_OverwriteGate ==
    (pc = "done" /\ AddedOverExisting # {} /\ result \notin BeforeIntegrity \cup {ErrIntegrity})
        => IF ~force
           THEN result = ErrOverwrite /\ NothingCommitted
           ELSE result = ResOK =>
                   \A w \in AddedOverExisting :
                       \E i \in 1..Len(newLockfile) :
                           /\ newLockfile[i].Path = w
                           /\ IsFileAt(disk, Join(ExecPath, w))
                           /\ Sha256(disk[Join(ExecPath, w)].data) = newLockfile[i].Sha

(* C10: a run that ends with an error of the load, the script, the purity  *)
(* check, the checksums, the integrity gate or the overwrite gate leaves   *)
(* what lies in the exec path outside the cache, and the lockfile file, as *)
(* they were.                                                              *)
C10_FailureFrame == Stopped(BeforeCommit) => NothingCommitted

(* the overwrite gate stopped a run that had staged the target a *)
C10_Witness ==
    /\ Stopped({ErrOverwrite})
    /\ errPaths = <<P("a")>>
    /\ IsFileAt(disk, Join(RunPath, P("a")))
    /\ disk[Join(ExecPath, P("a"))] = FileEntry("c2")

(* ---------------------------------------------------------------------- *)
(* the commit                                                              *)
(* ---------------------------------------------------------------------- *)

(* the indirect target paths of the target writes, in the order recorded *)
TargetWritePaths ==
    [i \in 1..Len(TargetWriteHandles(records)) |-> TargetWriteHandles(records)[i].indirectTargetPath]

(* every element once, at the place of its first occurrence *)
RECURSIVE Dedup(_, _)
Dedup(xs, seen) ==
    IF xs = <<>> THEN <<>>
    ELSE (IF Head(xs) \in seen THEN <<>> ELSE <<Head(xs)>>) \o Dedup(Tail(xs), seen \cup {Head(xs)})

(* the calls of the script that wrote the target path w *)
WritesOf(w) ==
    { i \in 1..Len(trace) :
        /\ trace[i].op = "write" /\ trace[i].err = ErrNone
        /\ resolve(inputs, trace[i].name).h.resolver = TargetResolver
        /\ resolve(inputs, trace[i].name).h.indirectTargetPath = w }

(* the bytes of the last write of the script to the target path w *)
LastWritten(w) == trace[CHOOSE i \in WritesOf(w) : \A j \in WritesOf(w) : j <= i].data

PathSeq(files) == [i \in 1..Len(files) |-> files[i].Path]

(* the file at exec_path/F has the sum the lockfile entry F records *)
ShaHolds(F) ==
    /\ IsFileAt(disk, Join(ExecPath, F.Path))
    /\ Sha256(disk[Join(ExecPath, F.Path)].data) = F.Sha

(* C11: after a run that was no dry run and returned without an error, the *)
(* lockfile file lists the paths of the target writes, each once, and the  *)
(* file at exec_path/F has the SHA-256 the lockfile records for F, for     *)
(* every listed F.                                                         *)
C11_LockfileMatchesDisk ==
    Committed =>
        /\ lockDisk.present /\ ~lockDisk.err
        /\ PathsOf(lockDisk.files) = WrittenPaths
        /\ Len(lockDisk.files) = Cardinality(WrittenPaths)
        /\ \A i \in 1..Len(lockDisk.files) : ShaHolds(lockDisk.files[i])

(* the locked paths that had a file in the exec path when the run started  *)
(* and that the run did not write                                          *)
Obsolete ==
    { p \in PathsOf(lock0.files) :
        p \notin PathsOf(newLockfile) /\ Join(ExecPath, p) \in DOMAIN disk0 }

(* C12: after a run that was no dry run and returned without an error,     *)
(* every path that the old lockfile lists, the new one does not and that   *)
(* was on disk before the run is gone from the exec path and is not listed *)
(* in the lockfile file.                                                   *)
C12_ObsoleteRemoved ==
    Committed =>
        \A p \in Obsolete :
            /\ Join(ExecPath, p) \notin DOMAIN disk
            /\ p \notin PathsOf(lockDisk.files)

(* C13: the files to move and the new lockfile hold every target path the  *)
(* script wrote once, in the order of the first writes; after the commit   *)
(* the file at each of these paths, and the sum the lockfile records for   *)
(* it, are those of the bytes of the last write to the path.               *)
C13_LastWriteWins ==
    /\ pc \in {"integrity", "newlock", "overwrite", "move", "remove", "lockfile"}
          => PathSeq(filesToMove) = Dedup(TargetWritePaths, {})
    /\ Committed =>
          /\ PathSeq(newLockfile) = Dedup(TargetWritePaths, {})
          /\ \A i \in 1..Len(newLockfile) :
                /\ newLockfile[i].Sha = Sha256(LastWritten(newLockfile[i].Path))
                /\ IsFileAt(disk, Join(ExecPath, newLockfile[i].Path))
                /\ disk[Join(ExecPath, newLockfile[i].Path)].data = LastWritten(newLockfile[i].Path)

(* the paths the script wrote through temp: and not as a target *)
TempOnly == RecordedPaths(FSAccessTypeWrite, TempResolver) \ WrittenPaths

(* C14: a write through temp: is no target write: it is staged under the   *)
(* temp path and not under the run path, it is not among the files to move, *)
(* while the script runs the exec path outside the cache is as before, and *)
(* after the commit a path written through temp: only is not in the        *)
(* lockfile and has no file in the exec path that the run put there.       *)
C14_TempStaysOut ==
    /\ \A i \in 1..Len(records) :
          records[i].Handle.resolver = TempResolver
              => /\ Inside(records[i].Handle.absPath, TempPath)
                 /\ records[i].Handle \notin Range(TargetWriteHandles(records))
    /\ \A i \in 1..Len(filesToMove) : Inside(filesToMove[i].AbsPath, RunPath)
    /\ PathsOf(newLockfile) \subseteq WrittenPaths
    /\ pc = "script" => ExecTree(disk) = ExecTree(disk0)
    /\ Committed =>
          \A t \in TempOnly :
              /\ t \notin PathsOf(lockDisk.files)
              /\ Join(ExecPath, t) \in DOMAIN disk => disk[Join(ExecPath, t)] = disk0[Join(ExecPath, t)]

(* the script wrote temp:b and no target b; b was locked, so the commit    *)
(* removed it                                                              *)
C14_Witness ==
    /\ Committed
    /\ P("b") \in TempOnly
    /\ IsFileAt(disk, Join(TempPath, P("b")))
    /\ P("b") \in PathsOf(lock0.files)
    /\ Join(ExecPath, P("b")) \notin DOMAIN disk

(* ---------------------------------------------------------------------- *)
(* dry run                                                                 *)
(* ---------------------------------------------------------------------- *)

(* the errors of the steps before `if e.DryRun` *)
BeforeDryRun == {ErrConfig, ErrLoad, ErrDefinition, ErrValidation, ErrScript, ErrPurity}

(* C15: a dry run goes no further than the dry-run branch; one that did not *)
(* fail before it returns nil, and then the exec path outside the cache and *)
(* the lockfile file are as before, nothing was renamed, and every target  *)
(* write has its file in the run directory.                                *)
C15_DryRunFrame ==
    dryRun =>
        /\ pc \in {"start", "script", "check", "dryrun", "done"}
        /\ pc = "done" => result \in BeforeDryRun \cup {ResOK}
        /\ Succeeded =>
              /\ NothingCommitted
              /\ moved = <<>>
              /\ StagingKept
              /\ \A i \in 1..Len(TargetWriteHandles(records)) :
                    Inside(TargetWriteHandles(records)[i].absPath, RunPath)

(* a dry run over a free target a that staged a and returned nil *)
C15_Witness ==
    /\ dryRun /\ Succeeded
    /\ P("a") \in WrittenPaths
    /\ IsFileAt(disk, Join(RunPath, P("a")))
    /\ Join(ExecPath, P("a")) \notin DOMAIN disk

(* C16: a dry run skips the move, the removal and the lockfile write only: *)
(* one that returned nil has taken the checksums of the staged files, and  *)
(* it returns nil in no case in which the integrity gate or the overwrite  *)
(* gate stops the same run without dry-run.                                *)
C16_DryRunKeepsGates ==
    (dryRun /\ Succeeded) =>
        /\ PathSeq(filesToMove) = Dedup(TargetWritePaths, {})
        /\ ~(~force /\ ModifiedAtStart # {})
        /\ ~(~force /\ AddedOverExisting # {})

(* ---------------------------------------------------------------------- *)
(* two runs                                                                *)
(* ---------------------------------------------------------------------- *)

(* C17: of two runs of one script with the same source, values and inputs  *)
(* that start from the same exec path and both return nil, the second      *)
(* leaves the files of the exec path outside the cache, the lockfile file  *)
(* among them, with the bytes the first left.                              *)
C17_Deterministic ==
    (first.kind = "same" /\ Succeeded) => ExecTree(disk) = ExecTree(first.disk)

(* C18: a run that follows a run that returned nil, with the same config,  *)
(* source and inputs and nothing changed in between, adds no path to the   *)
(* lockfile, removes none and renames no file into the exec path.          *)
C18_SecondRunIdle ==
    (first.kind = "following" /\ Committed) =>
        /\ changes.Added = <<>>
        /\ changes.Removed = <<>>
        /\ moved = <<>>

(* ---------------------------------------------------------------------- *)
(* what purity leaves in a run that returns nil                            *)
(* ---------------------------------------------------------------------- *)

RecordsOf(typ) == { i \in 1..Len(records) : records[i].Typ = typ }

(* C19 as stated: in a run that returned nil, no recorded read and         *)
(* recorded write have the same indirect target path.                      *)
C19_ReadsApartFromWrites ==
    Succeeded =>
        \A i \in RecordsOf(FSAccessTypeRead), j \in RecordsOf(FSAccessTypeWrite) :
            records[i].Handle.indirectTargetPath # records[j].Handle.indirectTargetPath

(* C19: in a run that returned nil, no recorded read of a mapped input and *)
(* recorded write of a target have the same indirect target path.          *)
C19_MapReadsApartFromTargetWrites ==
    Succeeded =>
        \A i \in RecordsOf(FSAccessTypeRead), j \in RecordsOf(FSAccessTypeWrite) :
            (records[i].Handle.resolver = MapResolver /\ records[j].Handle.resolver = TargetResolver)
                => records[i].Handle.indirectTargetPath # records[j].Handle.indirectTargetPath

(* the script read the input f and wrote the target a; the run committed a *)
C19_Witness ==
    /\ Committed
    /\ P("f") \in RecordedPaths(FSAccessTypeRead, MapResolver)
    /\ P("a") \in WrittenPaths
    /\ IsFileAt(disk, Join(ExecPath, P("a")))

(* C20: after a run that committed, no committed write has an indirect     *)
(* target path of the form D/* for a directory D of a mapped input that    *)
(* the script listed.                                                      *)
C20_ListedDirsUnwritten ==
    Committed =>
        \A D \in RecordedPaths(FSAccessTypeReadDir, MapResolver) :
            \A w \in PathsOf(newLockfile) : ~InGlob(D, w)

(* ---------------------------------------------------------------------- *)
(* the integrity gate with force, and entries that are gone               *)
(* ---------------------------------------------------------------------- *)

(* the lockfile file has the entry p with the sum of the bytes c *)
LockedAs(p, c) ==
    \E i \in 1..Len(lockDisk.files) :
        lockDisk.files[i].Path = p /\ lockDisk.files[i].Sha = Sha256(c)

(* C21: with force a run over locked files that were modified does not end *)
(* at the integrity gate; after one that committed, each of these files    *)
(* holds the bytes the script wrote last and the lockfile file records     *)
(* their sum, or, when the script did not write it, the file is gone and   *)
(* the lockfile file does not list it.                                     *)
C21_ForceOverwrites ==
    (force /\ ModifiedAtStart # {}) =>
        /\ pc = "done" => result # ErrIntegrity
        /\ Committed =>
              \A p \in ModifiedAtStart :
                  IF p \in WrittenPaths
                  THEN /\ IsFileAt(disk, Join(ExecPath, p))
                       /\ disk[Join(ExecPath, p)].data = LastWritten(p)
                       /\ LockedAs(p, LastWritten(p))
                  ELSE /\ Join(ExecPath, p) \notin DOMAIN disk
                       /\ p \notin PathsOf(lockDisk.files)

(* the locked paths that have no regular file in the exec path when the    *)
(* run starts: what CheckIntegrity calls Removed                           *)
RemovedAtStart ==
    { lock0.files[i].Path :
        i \in {j \in 1..Len(lock0.files) : ~IsFileAt(disk0, Join(ExecPath, lock0.files[j].Path))} }

(* the gates of the run hold nothing against it: no locked file was        *)
(* modified and no written path is unlocked with a file in the exec path   *)
NothingElseWrong == ModifiedAtStart = {} /\ AddedOverExisting = {}

(* C22: a locked path without a regular file in the exec path does not     *)
(* make the run fail, with force or without: a run that passed the purity  *)
(* check and has nothing else against it and is no dry run ends with nil   *)
(* and with the new lockfile in the lockfile file.                         *)
C22_RemovedOnlyWarns ==
    (RemovedAtStart # {} /\ NothingElseWrong /\ ~dryRun /\ pc = "done"
         /\ result \notin BeforeDryRun) =>
        /\ result = ResOK
        /\ lockDisk.files = newLockfile

(* ---------------------------------------------------------------------- *)
(* check                                                                   *)
(* ---------------------------------------------------------------------- *)

(* the entries of the lockfile file whose file in the exec path has        *)
(* another sum, and those that have no regular file there                  *)
ModifiedNow ==
    { i \in 1..Len(lockDisk.files) :
        /\ IsFileAt(disk, Join(ExecPath, lockDisk.files[i].Path))
        /\ Sha256(disk[Join(ExecPath, lockDisk.files[i].Path)].data) # lockDisk.files[i].Sha }

RemovedNow ==
    { i \in 1..Len(lockDisk.files) : ~IsFileAt(disk, Join(ExecPath, lockDisk.files[i].Path)) }

(* C23: a check whose config and lockfile load returns an error exactly    *)
(* when an entry of the lockfile is modified or removed in the exec path,  *)
(* and nil otherwise; no check changes a file, the lockfile among them.    *)
C23_CheckReports ==
    [][ pc' = "checked" =>
          /\ disk' = disk
          /\ result' # ErrConfig =>
                ((result' # ResOK) <=> (ModifiedNow \cup RemovedNow # {})) ]_vars

(* a check over a lockfile whose file a is gone returned the error that    *)
(* names a                                                                 *)
C23_Witness ==
    /\ pc = "checked"
    /\ result = ErrRemoved
    /\ errPaths = <<P("a")>>
    /\ ModifiedNow = {} /\ RemovedNow # {}

(* ---------------------------------------------------------------------- *)
(* Stat                                                                    *)
(* ---------------------------------------------------------------------- *)

(* what is at the path p: (exists, is_dir) *)
StatOf(d, p) == [exists |-> p \in DOMAIN d, dir |-> p \in DOMAIN d /\ d[p].kind = "dir"]

(* C24: a Stat on a name that resolves and passes access control returns   *)
(* no error, and (true, false) for a regular file at the resolved path,    *)
(* (true, true) for a directory and (false, false) when nothing is there.  *)
C24_StatReports ==
    (ret.op = "stat" /\ WasResolved /\ ret.err # ErrAccessDenied) =>
        /\ ret.err = ErrNone
        /\ ret.val = StatOf(disk, ret.calls[1].absPath)

(* ---------------------------------------------------------------------- *)
(* the hooks                                                               *)
(* ---------------------------------------------------------------------- *)

(* the step is an FS call *)
FSCall == nops' = nops + 1

(* C25: the access control hook runs before the purity hook and the        *)
(* recorder, and an error of a hook ends the call: an FS call that access  *)
(* control denies adds nothing to the path sets of the purity hook and     *)
(* nothing to the recorder and makes no call on the handle, so the files   *)
(* stay as they are; an FS call whose name resolves and that is not denied *)
(* reaches the recorder.                                                   *)
C25_HooksShortCircuit ==
    [][ FSCall =>
          /\ ret'.err = ErrAccessDenied =>
                /\ pure' = pure
                /\ records' = records
                /\ ret'.calls = <<>>
                /\ disk' = disk
          /\ (ret'.err \notin PathErrors \cup {ErrAccessDenied}) =>
                /\ Len(records') > Len(records)
                /\ records'[Len(records) + 1].Handle = resolve(inputs, ret'.name).h ]_vars

(* after a call that was recorded, access control denied a write to the    *)
(* pack source                                                             *)
C25_Witness ==
    /\ ret.op = "write" /\ ret.err = ErrAccessDenied
    /\ resolve(inputs, ret.name).h.resolver = RPackResolver
    /\ nops = 2 /\ Len(records) >= 1

(* ---------------------------------------------------------------------- *)
(* the recorder                                                            *)
(* ---------------------------------------------------------------------- *)

AccessTypeOf(op) ==
    CASE op = "read" -> FSAccessTypeRead
      [] op = "write" -> FSAccessTypeWrite
      [] op = "stat" -> FSAccessTypeStat
      [] OTHER -> FSAccessTypeReadDir

(* C26: every step of a run leaves the records the recorder holds as they  *)
(* are and in their order and puts new ones behind them only; a Read,      *)
(* Write or Stat that reached the recorder adds one record, of its type    *)
(* and handle, and a call that did not reach it adds none.                 *)
C26_RecorderAppendOnly ==
    [][ /\ Len(records') >= Len(records)
        /\ SubSeq(records', 1, Len(records)) = records
        /\ (FSCall /\ ret'.op \in {"read", "write", "stat"}) =>
              records' =
                  IF ret'.err \in PathErrors \cup {ErrAccessDenied} THEN records
                  ELSE Append(records, [Typ |-> AccessTypeOf(ret'.op),
                                        Handle |-> resolve(inputs, ret'.name).h]) ]_vars

(* a Write and then a Read were recorded, in this order *)
C26_Witness ==
    /\ nops = 2 /\ Len(records) = 2
    /\ records[1].Typ = FSAccessTypeWrite
    /\ records[2].Typ = FSAccessTypeRead

(* ---------------------------------------------------------------------- *)
(* the map resolver                                                        *)
(* ---------------------------------------------------------------------- *)

IsMapName(name) == HasPrefix(name, MapFSResolverPrefix)

(* map:NAME/REL: NAME is what stands before the first separator, REL what  *)
(* stands after it                                                         *)
FirstSep(t) == CHOOSE i \in 1..Len(t) : t[i] = Sep /\ \A j \in 1..(i - 1) : t[j] # Sep

HasRel(name) == \E i \in 1..Len(TailOf(name)) : TailOf(name)[i] = Sep

MapNameOf(name) ==
    IF HasRel(name) THEN SubSeq(TailOf(name), 1, FirstSep(TailOf(name)) - 1) ELSE TailOf(name)

MapRelOf(name) == SubSeq(TailOf(name), FirstSep(TailOf(name)) + 1, Len(TailOf(name)))

(* the resolved inputs of the name NAME *)
InputsNamed(n) == { inputs[i] : i \in {j \in 1..Len(inputs) : inputs[j].Name = n} }

(* the path of the handle a Stat on the name called *)
StatPath == ret.calls[1].absPath

(* C27: map:NAME resolves to the resolved path of the input NAME, a file   *)
(* or a directory; a name map:NAME/REL that resolves has a directory input *)
(* NAME and resolves to its path joined with REL; with a file input NAME   *)
(* every name that goes on after NAME fails, and so does every name whose  *)
(* NAME is no resolved input.                                              *)
C27_MapResolves ==
    (ret.op # "-" /\ IsMapName(ret.name)) =>
        /\ (~HasRel(ret.name) /\ InputsNamed(MapNameOf(ret.name)) # {}) =>
              /\ WasResolved
              /\ ret.op = "stat" =>
                    \E r \in InputsNamed(MapNameOf(ret.name)) : StatPath = r.ResolvedPath
        /\ (HasRel(ret.name) /\ WasResolved) =>
              \E r \in InputsNamed(MapNameOf(ret.name)) :
                  /\ r.Type = RPackInputTypeDirectory
                  /\ ret.op = "stat" => StatPath = Join(r.ResolvedPath, MapRelOf(ret.name))
        /\ (HasRel(ret.name) /\ \E r \in InputsNamed(MapNameOf(ret.name)) : r.Type = RPackInputTypeFile)
              => ret.err \in PathErrors
        /\ InputsNamed(MapNameOf(ret.name)) = {} => ret.err \in PathErrors

(* map:di/x is the file x of the mapped directory *)
C27_Witness ==
    /\ ret.op = "stat" /\ ret.name = <<"map", ":", "di", Sep, "x">>
    /\ ret.err = ErrNone
    /\ StatPath = Join(Join(ExecPath, <<"d">>), <<"x">>)

(* ---------------------------------------------------------------------- *)
(* ValidateRPackInputs                                                     *)
(* ---------------------------------------------------------------------- *)

DistinctNames(ins) == Cardinality({ins[i].Name : i \in 1..Len(ins)}) = Len(ins)

(* the declaration of the name has the kind *)
DeclaredAs(name, kind) ==
    \E i \in 1..Len(defInputs) : defInputs[i].Name = name /\ defInputs[i].Type = kind

(* C28: ValidateRPackInputs returns nil exactly when the resolved names    *)
(* are pairwise distinct, the declared names are pairwise distinct and     *)
(* every resolved input is declared, with its kind; a declared input that  *)
(* is not resolved is no error.                                            *)
C28_ValidateInputs ==
    pc = "done" =>
        (result = ResOK <=>
            /\ DistinctNames(inputs)
            /\ DistinctNames(defInputs)
            /\ \A i \in 1..Len(inputs) : DeclaredAs(inputs[i].Name, inputs[i].Type))

(* nil for one resolved input of two declared ones *)
C28_Witness ==
    /\ pc = "done" /\ result = ResOK
    /\ Len(inputs) = 1 /\ Len(defInputs) = 2
    /\ DistinctNames(defInputs)

(* ---------------------------------------------------------------------- *)
(* the lockfile: Changes and CheckIntegrity                                *)
(* ---------------------------------------------------------------------- *)

(* the elements of a list of paths *)
Elems(ps) == {ps[i] : i \in 1..Len(ps)}

(* C29: new.Changes(old) has in Added the paths of new that old does not   *)
(* have and in Removed the paths of old that new does not have, whatever   *)
(* the sums; no path is in both, and both are empty when the two lockfiles *)
(* list the same paths.                                                    *)
C29_ChangesByPath ==
    pc = "changes" =>
        /\ Elems(changes.Added) = PathsOf(newLockfile) \ PathsOf(oldLock)
        /\ Elems(changes.Removed) = PathsOf(oldLock) \ PathsOf(newLockfile)
        /\ Elems(changes.Added) \cap Elems(changes.Removed) = {}
        /\ PathsOf(newLockfile) = PathsOf(oldLock)
              => changes.Added = <<>> /\ changes.Removed = <<>>

(* a is in both lockfiles with different sums, b in the new one only *)
C29_Witness ==
    /\ pc = "changes"
    /\ newLockfile = <<LockFileFile(P("a"), Sha256("c1")), LockFileFile(P("b"), Sha256("c1"))>>
    /\ oldLock = <<LockFileFile(P("a"), Sha256("c2"))>>
    /\ changes = [Added |-> <<P("b")>>, Removed |-> <<>>]

(* the entry has no regular file at base/path *)
NoFileFor(f) == ~IsFileAt(disk, Join(ExecPath, f.Path))

(* the entry has a regular file at base/path with another sum *)
OtherSumFor(f) ==
    IsFileAt(disk, Join(ExecPath, f.Path)) /\ Sha256(disk[Join(ExecPath, f.Path)].data) # f.Sha

(* C30: CheckIntegrity(base) returns in Removed the paths of the entries   *)
(* without a regular file at base/path and in Modified those of the        *)
(* entries whose file has another SHA-256, each list in the order of the   *)
(* lockfile; an entry whose file has the recorded sum is in neither; no    *)
(* entry is in both; the files are left as they are.                       *)
C30_IntegrityClasses ==
    pc = "integrity" =>
        /\ ~oldLockIntegrity.err
        /\ oldLockIntegrity.Removed = PathSeq(SelectSeq(oldLock, NoFileFor))
        /\ oldLockIntegrity.Modified = PathSeq(SelectSeq(oldLock, OtherSumFor))
        /\ \A i \in 1..Len(oldLock) : ~(NoFileFor(oldLock[i]) /\ OtherSumFor(oldLock[i]))
        /\ disk = disk0

(* a is a directory and b a file with the sum c1; the lockfile has b with  *)
(* c2 and a                                                                *)
C30_Witness ==
    /\ pc = "integrity"
    /\ IsDirAt(disk, Join(ExecPath, P("a")))
    /\ oldLock = <<LockFileFile(P("b"), Sha256("c2")), LockFileFile(P("a"), Sha256("c1"))>>
    /\ oldLockIntegrity = [Modified |-> <<P("b")>>, Removed |-> <<P("a")>>, err |-> FALSE]

(* ---------------------------------------------------------------------- *)
(* C31: ResolveRPackInputs fails if a user path is absolute, is not local  *)
(* once cleaned (it leaves the exec path) or names nothing on the disk;    *)
(* otherwise it returns one resolved input per configured name, with the   *)
(* cleaned user path, the exec path joined with it as resolved path and    *)
(* the type dir exactly when a directory is at that path.                  *)
(* ---------------------------------------------------------------------- *)
UserPathBad(userPath) ==
    \/ IsAbs(userPath)
    \/ ~IsLocal(Clean(userPath))
    \/ Join(ExecPath, userPath) \notin DOMAIN disk0

InputFor(name) ==
    { i \in 1..Len(inputs) : inputs[i].Name = name }

C31_ResolveInputs ==
    pc = "done" =>
        IF \E n \in DOMAIN configInputs : UserPathBad(configInputs[n])
        THEN result = ErrLoad /\ inputs = <<>>
        ELSE /\ result = ResOK
             /\ Len(inputs) = Cardinality(DOMAIN configInputs)
             /\ \A n \in DOMAIN configInputs :
                   \E i \in 1..Len(inputs) :
                      /\ InputFor(n) = {i}
                      /\ inputs[i].UserPath = Clean(configInputs[n])
                      /\ inputs[i].ResolvedPath = Join(ExecPath, inputs[i].UserPath)
                      /\ (inputs[i].Type = RPackInputTypeDirectory
                            <=> IsDirAt(disk0, inputs[i].ResolvedPath))
                      /\ inputs[i].Type \in {RPackInputTypeDirectory, RPackInputTypeFile}

C31_Witness ==
    /\ pc = "done" /\ result = ResOK
    /\ Len(inputs) = 2
    /\ \E i \in 1..2 : inputs[i].Type = RPackInputTypeDirectory /\ configInputs[inputs[i].Name] # inputs[i].UserPath
    /\ \E i \in 1..2 : inputs[i].Type = RPackInputTypeFile

(* ---------------------------------------------------------------------- *)
(* C32: when write_lines(p, lines, sep, true), with sep LF or CRLF and no  *)
(* line containing sep, is followed by read_lines(p), the read returns     *)
(* the same lines, the same separator and finalNewline = true.             *)
(* ---------------------------------------------------------------------- *)
NoLineContains(lines, sep) == \A i \in 1..Len(lines) : ~StringsContains(lines[i], sep)

WroteThenRead(i) ==
    /\ i + 1 <= Len(trace)
    /\ trace[i].op = "write_lines" /\ trace[i].err = ErrNone
    /\ trace[i + 1].op = "read_lines" /\ trace[i + 1].err = ErrNone
    /\ trace[i + 1].name = trace[i].name
    /\ trace[i].data.finalNewline
    /\ NoLineContains(trace[i].data.lines, trace[i].data.sep)

C32_LinesRoundTrip ==
    \A i \in 1..Len(trace) :
        WroteThenRead(i) =>
            trace[i + 1].val = [lines |-> trace[i].data.lines,
                                separator |-> trace[i].data.sep,
                                finalNewline |-> TRUE]

(* ---------------------------------------------------------------------- *)
(* C33: for every handle h the map resolver made and every handle w of a   *)
(* target write of the same run, the indirect target paths of h and w are  *)
(* equal exactly when the file h observes, h.absPath, is the file the      *)
(* write is committed to, the exec path joined with w's indirect target    *)
(* path.                                                                   *)
(* ---------------------------------------------------------------------- *)
MapHandles ==
    { records[i].Handle : i \in { k \in 1..Len(records) : records[k].Handle.resolver = MapResolver } }

TargetWrites ==
    { records[i].Handle : i \in { k \in 1..Len(records) :
                                    /\ records[k].Handle.resolver = TargetResolver
                                    /\ records[k].Typ = FSAccessTypeWrite } }

C33_MatchIsCommitLocation ==
    \A h \in MapHandles, w \in TargetWrites :
        (h.indirectTargetPath = w.indirectTargetPath)
            <=> (h.absPath = Join(ExecPath, w.indirectTargetPath))

C33_Witness ==
    /\ inputs = InputsRoot
    /\ \E h \in MapHandles, w \in TargetWrites :
          /\ h.indirectTargetPath = w.indirectTargetPath
          /\ h.friendlyPath = Pre("map", N2("di", "x"))
          /\ h.absPath = Join(ExecPath, P("x"))

(* ---------------------------------------------------------------------- *)
(* C34: without force no run, whether it succeeds or fails, overwrites or  *)
(* deletes a file of the exec path (outside .rpack.d, and not the lockfile *)
(* itself) unless the old lockfile lists its path and the file on disk had *)
(* the recorded SHA-256 when the run started.                              *)
(* ---------------------------------------------------------------------- *)
ProtectedFiles ==
    { p \in DOMAIN disk0 :
        /\ IsFileAt(disk0, p)
        /\ Inside(p, ExecPath)
        /\ ~Inside(p, CacheDir)
        /\ p # LockFilePath }

(* deleted, holding other bytes, or the target of a rename *)
OverwrittenOrDeleted(p) ==
    \/ p \notin DOMAIN disk
    \/ disk[p] # disk0[p]
    \/ \E i \in 1..Len(moved) : moved[i] = p

ManagedAndIntact(p) ==
    \E i \in 1..Len(lock0.files) :
        /\ Join(ExecPath, lock0.files[i].Path) = p
        /\ lock0.files[i].Sha = Sha256(disk0[p].data)

C34_OverwriteProtection ==
    ~force => \A p \in ProtectedFiles : OverwrittenOrDeleted(p) => ManagedAndIntact(p)

C34_Witness ==
    /\ ~force /\ Committed
    /\ \E p \in ProtectedFiles : p \notin DOMAIN disk
    /\ \E p \in ProtectedFiles : p \in DOMAIN disk /\ disk[p] # disk0[p]

(* ---------------------------------------------------------------------- *)
(* C35: when a run failed in the move loop or the remove loop and the pack *)
(* is run again with the same inputs and without force, the second run     *)
(* (once its config, pack and inputs have loaded) passes the integrity     *)
(* gate and the overwrite gate, returns nil, and leaves the exec path and  *)
(* the lockfile as a run that was not interrupted: every written target    *)
(* holds the bytes the lockfile records and every file of the old lockfile *)
(* that is no longer written is gone.                                      *)
(* ---------------------------------------------------------------------- *)
RecoveryRun == first.kind = "recovery"

LoadFailed == result \in {ErrConfig, ErrLoad, ErrDefinition, ErrValidation}

AsUninterrupted ==
    /\ lockDisk.files = newLockfile
    /\ \A i \in 1..Len(newLockfile) :
          Sha256File(disk, Join(ExecPath, newLockfile[i].Path)).sha = newLockfile[i].Sha
    /\ \A i \in 1..Len(oldLock) :
          oldLock[i].Path \notin PathsOf(newLockfile)
              => Join(ExecPath, oldLock[i].Path) \notin DOMAIN disk

C35_RecoveryCompletes ==
    (RecoveryRun /\ pc = "done" /\ ~LoadFailed) => (result = ResOK /\ AsUninterrupted)

(* ---------------------------------------------------------------------- *)
(* C36: when the script has finished without raising an error and the      *)
(* purity check has passed, every entry of the target write set has a      *)
(* staged file at run_path/indirect_target_path (so the checksum step      *)
(* cannot fail): a target write is recorded only if its bytes were written *)
(* to the staging directory, also when the script caught a failed write.   *)
(* ---------------------------------------------------------------------- *)
ScriptDoneAndPure == pc = "dryrun"

Staged(h) == IsFileAt(disk, Clean(Join(RunPath, h.indirectTargetPath)))

C36_WriteSetIsStaged ==
    ScriptDoneAndPure =>
        \A i \in 1..Len(TargetWriteHandles(records)) : Staged(TargetWriteHandles(records)[i])

(* ---------------------------------------------------------------------- *)
(* C37: every friendly path FS.ReadDir(name) returns, file or directory,   *)
(* resolves again through the resolver list, to the resolver of the listed *)
(* directory and to its abs path and indirect target path extended by one  *)
(* component, the name of an entry of the directory; every entry is        *)
(* returned once.                                                          *)
(* ---------------------------------------------------------------------- *)
Listed == ret.op = "readdir" /\ ret.err = ErrNone

ListedPaths == ret.val.files \o ret.val.dirs

ListedDir == resolve(inputs, ret.name).h

ResolvesToChild(friendly, name) ==
    With(resolve(inputs, friendly), LAMBDA r :
        /\ r.err = ErrNone
        /\ r.h.resolver = ListedDir.resolver
        /\ r.h.absPath = ListedDir.absPath \o <<Sep>> \o name
        /\ r.h.indirectTargetPath = Join(ListedDir.indirectTargetPath, name))

(* the paths of the entries of the listed directory and their names *)
EntriesOfListed == {q \in DOMAIN disk : Dir(q) = ListedDir.absPath /\ q # ListedDir.absPath}

EntryNamesOfListed == {Drop(q, Len(ListedDir.absPath) + 1) : q \in EntriesOfListed}

C37_ListingResolves ==
    Listed =>
        /\ \A i \in 1..Len(ListedPaths) :
              \E name \in EntryNamesOfListed : ResolvesToChild(ListedPaths[i], name)
        /\ Len(ListedPaths) = Cardinality(EntriesOfListed)
        /\ \A i, j \in 1..Len(ListedPaths) : i # j => ListedPaths[i] # ListedPaths[j]

C37_Witness ==
    /\ Listed
    /\ inputs = InputsRoot
    /\ ListedDir.resolver = MapResolver
    /\ ListedDir.indirectTargetPath = Dot
    /\ Len(ret.val.files) > 0 /\ Len(ret.val.dirs) > 0

(* ---------------------------------------------------------------------- *)
(* C38: FS.ReadDirAll(name) calls FS.ReadDir once for the start directory  *)
(* and once for every directory below it, level by level (so the hooks     *)
(* run for every level), and returns the per-level results one after the   *)
(* other; when a level fails the call fails with no result at all.         *)
(* ---------------------------------------------------------------------- *)
ListedAll == ret.op = "readdirall"

StartDir == resolve(inputs, ret.name).h

(* the directories ReadDir was called on, in order *)
LevelCalls == SelectSeq(ret.calls, LAMBDA c : c.op = "readdir")

DirsFrom(p) == {q \in DOMAIN disk : IsDirAt(disk, q) /\ Inside(q, p)}

FilesBelow(p) == {q \in DOMAIN disk : IsFileAt(disk, q) /\ Inside(q, p)}

Depth(p) == Len(SplitSep(p))

AbsOf(friendly) == resolve(inputs, friendly).h.absPath

(* the index of the level that listed the friendly path *)
LevelOf(friendly) ==
    CHOOSE i \in 1..Len(LevelCalls) : LevelCalls[i].absPath = Dir(AbsOf(friendly))

C38_ReadDirAllLevels ==
    ListedAll =>
        IF ret.err # ErrNone THEN ret.val = NoVal
        ELSE /\ Len(LevelCalls) = Cardinality(DirsFrom(StartDir.absPath))
             /\ {LevelCalls[i].absPath : i \in 1..Len(LevelCalls)} = DirsFrom(StartDir.absPath)
             /\ \A i, j \in 1..Len(LevelCalls) :
                   i < j => Depth(LevelCalls[i].absPath) <= Depth(LevelCalls[j].absPath)
             /\ \A i \in 1..Len(LevelCalls) :
                   \E k \in 1..Len(records) :
                      /\ records[k].Typ = FSAccessTypeReadDir
                      /\ records[k].Handle.absPath = LevelCalls[i].absPath
             /\ <<StartDir.absPath>> \o [i \in 1..Len(ret.val.dirs) |-> AbsOf(ret.val.dirs[i])]
                   = [i \in 1..Len(LevelCalls) |-> LevelCalls[i].absPath]
             /\ Len(ret.val.files) = Cardinality(FilesBelow(StartDir.absPath))
             /\ {AbsOf(ret.val.files[i]) : i \in 1..Len(ret.val.files)} = FilesBelow(StartDir.absPath)
             /\ \A i, j \in 1..Len(ret.val.files) :
                   i < j => LevelOf(ret.val.files[i]) <= LevelOf(ret.val.files[j])

C38_Witness ==
    /\ ListedAll /\ ret.err = ErrNone
    /\ inputs = InputsRoot
    /\ StartDir.absPath = ExecPath
    /\ Len(LevelCalls) > 4
    /\ Len(ret.val.files) > 2

====
